---- MODULE Spec2Model ----
(***************************************************************************)
(* On-chain funding and fee escalation of a peg-in (cmd/psweb/ln/lnd.go).  *)
(*                                                                         *)
(* The application side (SendCoinsWithUtxos, releaseOutputs, fundPsbt,     *)
(* fundPsbtSpendAll, BumpPeginFee, doCPFP, CanRBF) is translated from the  *)
(* Go code.  The node backend (LND wallet kit) is the environment: every   *)
(* RPC answers from its own state (lock table, unspent set, transaction    *)
(* view) and may also fail for reasons of its own (a bounded number of     *)
(* times per behaviour).                                                   *)
(***************************************************************************)
EXTENDS Integers, Sequences, FiniteSets, TLC

\* ------------------------------------------------------------------ bounds
\* number of requests (peg-in or bump) one behaviour may start
MaxOps == 2
\* number of backend calls that may fail for reasons outside the wallet state
MaxFaults == 1
\* longest outpoint list a caller passes
MaxUtxos == 2
\* most calls of CanRBF made one after another
MaxCalls == 3

\* outputs of a transaction handed to a single function call
MaxOuts == 2
\* times the chain grows
MaxMines == 3
\* forwarding events the backend records
MaxEvents == 3
\* seconds the backend's clock advances
MaxTicks == 3
\* writes a handler makes to its response during one invocation
MaxWrites == 2

\* ------------------------------------------------------- program constants
\* for haircut := int64(0); haircut <= 2000; haircut += 5
HaircutMax == 2000
\* a loop stepping twice as far
HaircutStep_Double == 5 + 5
HaircutStep == 5

\* --------------------------------------------------------------- the wallet
\* the two lock tokens: internalLockId and myLockId
internalLockId == "implicit"
myLockId == "explicit"
NoLock == "none"
LockIds == {internalLockId, myLockId}

OutA == [txid |-> "A", index |-> 0]
OutB == [txid |-> "B", index |-> 1]
\* the outputs the wallet owns, in the order ListUnspent reports them
WalletOrder == <<OutA, OutB>>
Outpoints == {OutA, OutB}

\* value of a wallet output in satoshis
AmountOf(o) == IF o = OutA THEN 600000 ELSE 1000

\* the caller's outpoint strings "txid:index"; idx is the text after the colon
UtxoStrings ==
    { [txid |-> "A", idx |-> "0"], [txid |-> "B", idx |-> "1"],
      [txid |-> "A", idx |-> "x"] }

RECURSIVE SeqsUpTo(_, _)
SeqsUpTo(S, n) ==
    IF n = 0 THEN {<<>>}
    ELSE LET shorter == SeqsUpTo(S, n - 1)
         IN  shorter \cup { Append(s, x) : s \in shorter, x \in S }

UtxoLists == SeqsUpTo(UtxoStrings, MaxUtxos)

\* destination addresses: the peg-in address, one that does not decode, and
\* the change addresses the wallet derives (a fresh one per funding)
PeginAddr == [kind |-> "pegin", n |-> 0]
BadAddr == [kind |-> "bad", n |-> 0]
ChangeAddr(k) == [kind |-> "change", n |-> k]

Amounts == {500000, 600000}
FeeRates == {5, 20}

\* outputs below the dust limit are not created by the wallet
IsDust(v) == v < 330

\* versions the backend may report: major and minor as text
Versions == { [major |-> "0", minor |-> "17"], [major |-> "0", minor |-> "18"] }

\* version strings whose second component is no number ("0.x", "1.x"), or
\* whose first component is none ("v0.18"), beside the ordinary ones
ReportedVersions ==
    Versions \cup { [major |-> "0", minor |-> "x"], [major |-> "1", minor |-> "x"],
                    [major |-> "1", minor |-> "0"], [major |-> "v0", minor |-> "18"] }

\* ------------------------------------------------------------ text parsing
\* strconv.Atoi on the index part of an outpoint string
Atoi(s) ==
    CASE s = "0" -> [ok |-> TRUE, v |-> 0]
      [] s = "1" -> [ok |-> TRUE, v |-> 1]
      [] OTHER   -> [ok |-> FALSE, v |-> 0]

\* strconv.ParseFloat on one component of the version string
ParseFloat(s) ==
    CASE s = "0"  -> [ok |-> TRUE, v |-> 0]
      [] s = "1"  -> [ok |-> TRUE, v |-> 1]
      [] s = "17" -> [ok |-> TRUE, v |-> 17]
      [] s = "18" -> [ok |-> TRUE, v |-> 18]
      [] OTHER    -> [ok |-> FALSE, v |-> 0]

\* the lnrpc.OutPoint built from a parsed outpoint string
OutPointOf(u) == [txid |-> u.txid, index |-> Atoi(u.idx).v]

\* the text of an output index, as the backend prints it in "txid:index"
Itoa(i) == IF i = 0 THEN "0" ELSE "1"

\* lnrpc.PreviousOutPoint.Outpoint: the backend's "txid:index" of an input
OutpointString(o) == [txid |-> o.txid, idx |-> Itoa(o.index)]

\* ------------------------------------------------------ sequences and sums
Range(s) == { s[i] : i \in DOMAIN s }

NoDup(s) == \A i, j \in DOMAIN s : i # j => s[i] # s[j]

RECURSIVE SumAmounts(_)
SumAmounts(ins) ==
    IF ins = <<>> THEN 0 ELSE AmountOf(Head(ins)) + SumAmounts(Tail(ins))

RECURSIVE SumValues(_)
SumValues(outs) ==
    IF outs = <<>> THEN 0 ELSE Head(outs).value + SumValues(Tail(outs))

\* the members of a set of wallet outputs in wallet order
InWalletOrder(S) == SelectSeq(WalletOrder, LAMBDA o : o \in S)

\* --------------------------------------------------- wire transactions
\* A transaction is [ins, outs, wit]: the spent outpoints, the outputs
\* [addr, value] and the witness data.  Its raw bytes are a sequence of
\* numbers: input count, (txid, index) per input, output count,
\* (value, address kind, address number) per output, witness.
TxidCode(t) == IF t = "A" THEN 1 ELSE 2
TxidOfCode(c) == IF c = 1 THEN "A" ELSE "B"
KindCode(k) == CASE k = "pegin" -> 1 [] k = "change" -> 2 [] OTHER -> 0
KindOfCode(c) == CASE c = 1 -> "pegin" [] c = 2 -> "change" [] OTHER -> "bad"

RECURSIVE EncodeIns(_)
EncodeIns(ins) ==
    IF ins = <<>> THEN <<>>
    ELSE <<TxidCode(Head(ins).txid), Head(ins).index>> \o EncodeIns(Tail(ins))

RECURSIVE EncodeOuts(_)
EncodeOuts(outs) ==
    IF outs = <<>> THEN <<>>
    ELSE <<Head(outs).value, KindCode(Head(outs).addr.kind), Head(outs).addr.n>>
         \o EncodeOuts(Tail(outs))

\* the serialization without witness data, which the transaction id commits to
SerializeNoWitness(tx) ==
    <<Len(tx.ins)>> \o EncodeIns(tx.ins) \o <<Len(tx.outs)>> \o EncodeOuts(tx.outs)

\* the raw bytes of a signed transaction
Serialize(tx) == SerializeNoWitness(tx) \o <<tx.wit>>

\* wire.MsgTx.Deserialize: fails when the bytes end early or run over
Deserialize(raw) ==
    IF Len(raw) < 1 THEN [ok |-> FALSE]
    ELSE LET n == raw[1]
         IN  IF Len(raw) < 2 * n + 2 THEN [ok |-> FALSE]
             ELSE LET m == raw[2 * n + 2]
                  IN  IF Len(raw) # 2 * n + 2 + 3 * m + 1 THEN [ok |-> FALSE]
                      ELSE [ok   |-> TRUE,
                            ins  |-> [i \in 1..n |->
                                        [txid  |-> TxidOfCode(raw[2 * i]),
                                         index |-> raw[2 * i + 1]]],
                            outs |-> [j \in 1..m |->
                                        [value |-> raw[2 * n + 3 * j],
                                         addr  |-> [kind |-> KindOfCode(raw[2 * n + 3 * j + 1]),
                                                    n    |-> raw[2 * n + 3 * j + 2]]]],
                            wit  |-> raw[Len(raw)]]

\* wire.MsgTx.TxHash: the id commits to inputs and outputs, not to the witness
TxHash(msgTx) == SerializeNoWitness(msgTx)

\* hex.EncodeToString: two digits per byte
RECURSIVE HexEncode(_)
HexEncode(bytes) ==
    IF bytes = <<>> THEN <<>>
    ELSE <<Head(bytes) \div 16, Head(bytes) % 16>> \o HexEncode(Tail(bytes))

\* the empty transaction id (config.Config.PeginTxId == "")
NoTxId == <<>>

\* virtual size of a transaction with nIn inputs and nOut outputs
VSize(nIn, nOut) == 11 + 68 * nIn + 43 * nOut

\* the fee the wallet charges at a rate in sat/vbyte
FeeFor(nIn, nOut, rate) == rate * VSize(nIn, nOut)

\* ------------------------------------------------------------- the backend
\* The lock table maps every wallet output to the token it is leased under.
\* ReleaseOutput: an output that is not leased is released without error; a
\* lease under another token is never removed, and whether that is reported
\* as an error is the backend's choice (strict).  fail: the call fails for a
\* reason of its own and changes nothing.
ReleaseOutput(lk, id, o, strict, fail) ==
    IF fail THEN [locks |-> lk, err |-> TRUE, other |-> FALSE]
    ELSE IF o \notin Outpoints \/ lk[o] = NoLock
    THEN [locks |-> lk, err |-> FALSE, other |-> FALSE]
    ELSE IF lk[o] = id
    THEN [locks |-> [lk EXCEPT ![o] = NoLock], err |-> FALSE, other |-> FALSE]
    ELSE [locks |-> lk, err |-> strict, other |-> TRUE]

\* LeaseOutput: refused when the output is leased under another token
LeaseOutput(lk, id, o, fail) ==
    IF fail \/ o \notin Outpoints \/ lk[o] \notin {NoLock, id}
    THEN [locks |-> lk, err |-> TRUE]
    ELSE [locks |-> [lk EXCEPT ![o] = id], err |-> FALSE]

\* ListUnspent: the unspent outputs that are not leased, in wallet order
ListUnspent(lk, unsp) == InWalletOrder({ o \in unsp : lk[o] = NoLock })

\* the outputs of a funded transaction: the requested ones plus change
WithChange(outs, change, pos) ==
    IF pos = 0 THEN <<change>> \o outs ELSE Append(outs, change)

\* FundPsbt with a raw template (inputs, address -> amount).  Without inputs
\* the wallet selects the coins sel itself.  Every input is leased under the
\* wallet's default token.  pos is where the wallet puts the change output.
FundPsbtRaw(lk, unsp, chg, inputs, outputs, rate, sel, pos, fail) ==
    LET ins    == IF inputs = <<>> THEN InWalletOrder(sel) ELSE inputs
        n      == Len(ins)
        m      == Len(outputs)
        S      == SumAmounts(ins)
        O      == SumValues(outputs)
        change == S - O - FeeFor(n, m + 1, rate)
        usable == /\ ~fail
                  /\ n > 0
                  /\ NoDup(ins)
                  /\ \A i \in 1..n : ins[i] \in unsp /\ lk[ins[i]] = NoLock
                  /\ \A j \in 1..m : /\ outputs[j].addr.kind # "bad"
                                     /\ ~IsDust(outputs[j].value)
        locked == [o \in Outpoints |-> IF o \in Range(ins) THEN internalLockId ELSE lk[o]]
    IN  IF ~usable THEN [ok |-> FALSE, locks |-> lk, chg |-> chg]
        ELSE IF ~IsDust(change)
        THEN [ok    |-> TRUE, locks |-> locked, chg |-> chg + 1,
              psbt  |-> [ins  |-> ins,
                         outs |-> WithChange(outputs,
                                     [addr |-> ChangeAddr(chg), value |-> change], pos)]]
        ELSE IF m > 0 /\ S - O >= FeeFor(n, m, rate)
        THEN [ok    |-> TRUE, locks |-> locked, chg |-> chg,
              psbt  |-> [ins |-> ins, outs |-> outputs]]
        ELSE [ok |-> FALSE, locks |-> lk, chg |-> chg]

\* FundPsbt with a coin-select template whose output 0 is the change output:
\* the wallet resizes output 0 to what the inputs leave after the fee.  The
\* template's inputs must have been leased by the caller; only when they do
\* not cover the fee the wallet adds coins (extra) and leases those itself.
FundPsbtCoinSelect(lk, unsp, ins, addr, rate, extra, fail) ==
    LET short  == IsDust(SumAmounts(ins) - FeeFor(Len(ins), 1, rate))
        all    == ins \o InWalletOrder(extra)
        n      == Len(all)
        value  == SumAmounts(all) - FeeFor(n, 1, rate)
        usable == /\ ~fail
                  /\ n > 0
                  /\ NoDup(ins)
                  /\ \A i \in 1..Len(ins) : ins[i] \in unsp
                  /\ extra # {} => short
                  /\ \A o \in extra : o \in unsp /\ lk[o] = NoLock /\ o \notin Range(ins)
                  /\ ~IsDust(value)
    IN  IF ~usable THEN [ok |-> FALSE, locks |-> lk]
        ELSE [ok    |-> TRUE,
              locks |-> [o \in Outpoints |-> IF o \in extra THEN internalLockId ELSE lk[o]],
              psbt  |-> [ins |-> all, outs |-> <<[addr |-> addr, value |-> value]>>]]

\* FinalizePsbt: the signed raw transaction of the funded PSBT.  cut: the
\* bytes that come back are incomplete.
FinalizePsbt(psbt, wit, cut) ==
    LET raw == Serialize([ins |-> psbt.ins, outs |-> psbt.outs, wit |-> wit])
    IN  IF cut THEN SubSeq(raw, 1, Len(raw) - 1) ELSE raw

\* the wallet's record of a transaction: what the id commits to
TxRecord(msgTx) == [ins |-> msgTx.ins, outs |-> msgTx.outs]

\* PublishTransaction: refused when an input is no longer unspent, unless the
\* wallet already knows this very transaction
PublishTransaction(unsp, txs, raw, fail) ==
    LET m == Deserialize(raw)
    IN  IF fail \/ ~m.ok THEN [ok |-> FALSE, unspent |-> unsp, txs |-> txs]
        ELSE IF TxRecord(m) \in txs THEN [ok |-> TRUE, unspent |-> unsp, txs |-> txs]
        ELSE IF \E i \in DOMAIN m.ins : m.ins[i] \notin unsp
        THEN [ok |-> FALSE, unspent |-> unsp, txs |-> txs]
        ELSE [ok |-> TRUE, unspent |-> unsp \ Range(m.ins), txs |-> txs \cup {TxRecord(m)}]

\* bitcoin.GetFeeFromPsbt followed by toSats: inputs minus outputs
GetFeeFromPsbt(psbt) == SumAmounts(psbt.ins) - SumValues(psbt.outs)

\* RemoveTransaction: drops the transaction from the wallet's view; its inputs
\* are unspent again.  fail: the call fails; refuse: the wallet answers with
\* another status and removes nothing.
RemoveTransaction(unsp, txs, tx, fail, refuse) ==
    IF fail THEN [err |-> TRUE, status |-> "", unspent |-> unsp, txs |-> txs]
    ELSE IF refuse
    THEN [err |-> FALSE, status |-> "not removed", unspent |-> unsp, txs |-> txs]
    ELSE [err |-> FALSE, status |-> "Successfully removed transaction",
          unspent |-> unsp \cup (Range(tx.ins) \cap Outpoints), txs |-> txs \ {tx}]

\* BumpFee: accepted only for an existing output of a known transaction
BumpFeeAccepts(txs, txid, outputIndex) ==
    \E t \in txs : TxHash(t) = txid /\ outputIndex < Len(t.outs)

\* --------------------------------------------------------- the application
BoolToNat(b) == IF b THEN 1 ELSE 0

Max(a, b) == IF a >= b THEN a ELSE b

\* releaseOutputs from entry i on.  failAt: the entry whose ReleaseOutput call
\* fails for a reason of the backend's own (0: none).  other: a call met a
\* lease under another token.
RECURSIVE releaseFrom(_, _, _, _, _, _, _)
releaseFrom(lk, utxos, lockId, i, failAt, strict, other) ==
    IF i > Len(utxos)
    THEN [locks |-> lk, err |-> FALSE, calls |-> i - 1, faults |-> 0, other |-> other]
    ELSE IF ~Atoi(utxos[i].idx).ok
    THEN \* log and break: the function returns nil
         [locks |-> lk, err |-> FALSE, calls |-> i - 1, faults |-> 0, other |-> other]
    ELSE LET r == ReleaseOutput(lk, lockId, OutPointOf(utxos[i]), strict, i = failAt)
         IN  IF r.err
             THEN [locks |-> r.locks, err |-> TRUE, calls |-> i,
                   faults |-> BoolToNat(i = failAt), other |-> other \/ r.other]
             ELSE releaseFrom(r.locks, utxos, lockId, i + 1, failAt, strict,
                              other \/ r.other)

\* releaseOutputs leaving its loop after the first entry
releaseOutputs_FirstOnly(lk, utxos, lockId, failAt, strict) ==
    releaseFrom(lk, IF utxos = <<>> THEN <<>> ELSE <<Head(utxos)>>, lockId, 1, failAt,
                strict, FALSE)

releaseOutputs(lk, utxos, lockId, failAt, strict) ==
    releaseFrom(lk, utxos, lockId, 1, failAt, strict, FALSE)

\* what one releaseOutputs call was given and what it did
ReleaseCall(lk, utxos, lockId, rel) ==
    [utxos |-> utxos, id |-> lockId, before |-> lk, after |-> rel.locks,
     err |-> rel.err, faults |-> rel.faults, calls |-> rel.calls]

\* the choices made for a releaseOutputs call are the ones that matter to it
Relevant(rel, failAt, strict) ==
    /\ failAt # 0 => rel.faults = 1
    /\ strict => rel.other

\* fundPsbt: parses the outpoint strings, then asks the backend to fund the
\* raw template.  admissible: sel is a selection the wallet can make (coins
\* that fund the template when the caller named none and such coins exist).
fundPsbt(lk, unsp, chg, utxos, outputs, feeRate, sel, pos, fail) ==
    IF \E i \in DOMAIN utxos : ~Atoi(utxos[i].idx).ok
    THEN [ok |-> FALSE, locks |-> lk, chg |-> chg, called |-> FALSE, faults |-> 0,
          admissible |-> sel = {} /\ ~fail /\ pos = 0]
    ELSE LET inputs == [i \in DOMAIN utxos |-> OutPointOf(utxos[i])]
             with(s) == FundPsbtRaw(lk, unsp, chg, inputs, outputs, feeRate, s, pos, FALSE)
             r == FundPsbtRaw(lk, unsp, chg, inputs, outputs, feeRate, sel, pos, fail)
             admissible ==
                 IF fail \/ utxos # <<>> THEN sel = {}
                 ELSE with(sel).ok \/ (sel = {} /\ \A s \in SUBSET Outpoints : ~with(s).ok)
         IN  IF r.ok
             THEN [ok |-> TRUE, locks |-> r.locks, chg |-> r.chg, psbt |-> r.psbt,
                   called |-> TRUE, faults |-> 0,
                   admissible |-> admissible /\ (r.chg = chg => pos = 0)]
             ELSE [ok |-> FALSE, locks |-> lk, chg |-> chg, called |-> TRUE,
                   faults |-> BoolToNat(fail),
                   admissible |-> admissible /\ pos = 0]

\* The lease loop of fundPsbtSpendAll: for every unspent output of the
\* backend, for every outpoint string of the caller.  k counts the pairs
\* visited, leases the LeaseOutput calls made so far.
RECURSIVE leaseFrom(_, _, _, _, _, _, _)
leaseFrom(lk, unspentSeq, utxoStrings, k, txIn, leases, leaseFailAt) ==
    IF k >= Len(unspentSeq) * Len(utxoStrings)
    THEN [ok |-> TRUE, locks |-> lk, txIn |-> txIn, leases |-> leases, faults |-> 0,
          site |-> "leased"]
    ELSE LET utxo == unspentSeq[(k \div Len(utxoStrings)) + 1]
             u    == utxoStrings[(k % Len(utxoStrings)) + 1]
         IN  IF ~Atoi(u.idx).ok
             THEN [ok |-> FALSE, locks |-> lk, txIn |-> txIn, leases |-> leases,
                   faults |-> 0, site |-> "Atoi"]
             ELSE IF utxo = OutPointOf(u)
             THEN LET r == LeaseOutput(lk, myLockId, utxo, leases + 1 = leaseFailAt)
                  IN  IF r.err
                      THEN [ok |-> FALSE, locks |-> lk, txIn |-> txIn,
                            leases |-> leases + 1,
                            faults |-> BoolToNat(leases + 1 = leaseFailAt),
                            site |-> "LeaseOutput"]
                      ELSE leaseFrom(r.locks, unspentSeq, utxoStrings, k + 1,
                                     Append(txIn, utxo), leases + 1, leaseFailAt)
             ELSE leaseFrom(lk, unspentSeq, utxoStrings, k + 1, txIn, leases,
                            leaseFailAt)

\* fundPsbtSpendAll.  f holds what the backend decides: list (ListUnspent
\* fails), leaseAt (the LeaseOutput call that fails), fund (FundPsbt fails),
\* extra (coins the wallet adds), relAt and strict (for the release on the
\* failure path).  admissible: extra is a choice the wallet can make.
fundPsbtSpendAll(lk, unsp, utxoStrings, address, feeRate, f) ==
    IF f.list
    THEN [ok |-> FALSE, locks |-> lk, issued |-> {"ListUnspent"}, leased |-> {},
          faults |-> 1, site |-> "ListUnspent", rels |-> <<>>,
          admissible |-> f.extra = {} /\ f.relAt = 0 /\ ~f.strict /\ ~f.fund /\ f.leaseAt = 0]
    ELSE
    LET l == leaseFrom(lk, ListUnspent(lk, unsp), utxoStrings, 0, <<>>, 0, f.leaseAt)
        i1 == {"ListUnspent"} \cup (IF l.leases > 0 THEN {"LeaseOutput"} ELSE {})
        early == f.extra = {} /\ f.relAt = 0 /\ ~f.strict /\ ~f.fund
    IN  IF ~l.ok
        THEN [ok |-> FALSE, locks |-> l.locks, issued |-> i1, leased |-> Range(l.txIn),
              faults |-> l.faults, site |-> l.site, rels |-> <<>>,
              admissible |-> early /\ (f.leaseAt # 0 => l.faults = 1)]
        ELSE IF address.kind = "bad"
        THEN \* DecodeAddress fails
             [ok |-> FALSE, locks |-> l.locks, issued |-> i1, leased |-> Range(l.txIn),
              faults |-> 0, site |-> "DecodeAddress", rels |-> <<>>,
              admissible |-> early /\ f.leaseAt = 0]
        ELSE LET with(e) == FundPsbtCoinSelect(l.locks, unsp, l.txIn, address, feeRate,
                                               e, FALSE)
                 r == FundPsbtCoinSelect(l.locks, unsp, l.txIn, address, feeRate,
                                         f.extra, f.fund)
                 admissible ==
                     /\ f.leaseAt = 0
                     /\ IF f.fund THEN f.extra = {}
                        ELSE with(f.extra).ok
                             \/ (f.extra = {} /\ \A e \in SUBSET Outpoints : ~with(e).ok)
             IN  IF r.ok
                 THEN [ok |-> TRUE, locks |-> r.locks, psbt |-> r.psbt,
                       issued |-> i1 \cup {"FundPsbt"},
                       leased |-> Range(l.txIn) \cup f.extra, faults |-> 0,
                       site |-> "funded", rels |-> <<>>,
                       admissible |-> admissible /\ f.relAt = 0 /\ ~f.strict]
                 ELSE LET rel == releaseOutputs(l.locks, utxoStrings, myLockId,
                                                f.relAt, f.strict)
                      IN  [ok |-> FALSE, locks |-> rel.locks,
                           issued |-> i1 \cup {"FundPsbt"} \cup
                                      (IF rel.calls > 0 THEN {"ReleaseOutput"} ELSE {}),
                           leased |-> Range(l.txIn),
                           faults |-> BoolToNat(f.fund) + rel.faults,
                           site |-> "FundPsbt",
                           rels |-> <<ReleaseCall(l.locks, utxoStrings, myLockId, rel)>>,
                           admissible |-> admissible /\ Relevant(rel, f.relAt, f.strict)]

\* fundPsbtSpendAll up to its FundPsbt call: the unsigned transaction handed
\* to the backend as coin-select template, with the index of the output
\* named as change.  built: the function got as far as the FundPsbt call.
SpendAllTemplate(lk, unsp, utxoStrings, address, f) ==
    LET l == leaseFrom(lk, ListUnspent(lk, unsp), utxoStrings, 0, <<>>, 0, f.leaseAt)
    IN  [built |-> ~f.list /\ l.ok /\ address.kind # "bad",
         tx |-> [ins |-> l.txIn, outs |-> <<[addr |-> address, value |-> 1]>>],
         ExistingOutputIndex |-> 0,
         locks |-> l.locks]

\* the cached version is never taken as known
VersionKnown_Never(lv) == FALSE

\* if LndVerson == 0 the version is asked for; otherwise the cached one is
\* used
VersionKnown(lv) == lv # 0

\* CanRBF with the threshold one minor version too low
CanRBF_From17(lv, ver, infoFail) ==
    IF lv # 0 THEN [ret |-> lv >= 17, lv |-> lv, called |-> FALSE, faults |-> 0]
    ELSE IF infoFail THEN [ret |-> FALSE, lv |-> lv, called |-> TRUE, faults |-> 1]
    ELSE LET a == ParseFloat(ver.major)
             b == ParseFloat(ver.minor)
         IN  IF ~a.ok THEN [ret |-> FALSE, lv |-> lv, called |-> TRUE, faults |-> 0]
             ELSE IF ~b.ok
             THEN [ret |-> FALSE, lv |-> a.v * 100, called |-> TRUE, faults |-> 0]
             ELSE [ret |-> a.v * 100 + b.v >= 17, lv |-> a.v * 100 + b.v,
                   called |-> TRUE, faults |-> 0]

\* CanRBF.  LndVerson is kept in hundredths (0.18 is 18); 0 means not yet
\* known.  infoFail: GetClient or GetInfo fails.
CanRBF(lv, ver, infoFail) ==
    IF VersionKnown(lv) THEN [ret |-> lv >= 18, lv |-> lv, called |-> FALSE, faults |-> 0]
    ELSE IF infoFail THEN [ret |-> FALSE, lv |-> lv, called |-> TRUE, faults |-> 1]
    ELSE LET a == ParseFloat(ver.major)
             b == ParseFloat(ver.minor)
         IN  IF ~a.ok THEN [ret |-> FALSE, lv |-> lv, called |-> TRUE, faults |-> 0]
             ELSE IF ~b.ok
             THEN [ret |-> FALSE, lv |-> a.v * 100, called |-> TRUE, faults |-> 0]
             ELSE [ret |-> a.v * 100 + b.v >= 18, lv |-> a.v * 100 + b.v,
                   called |-> TRUE, faults |-> 0]

\* getTransaction: the entry of the backend's transaction list with this id
TxsWithId(txs, txid) == { t \in txs : TxHash(t) = txid }

\* doCPFP: the output index the bump request is sent for (999: none found)
RECURSIVE changeIndexFrom(_, _, _)
changeIndexFrom(outs, i, peginAddress) ==
    IF i > Len(outs) THEN 999
    ELSE IF outs[i].addr # peginAddress THEN i - 1
    ELSE changeIndexFrom(outs, i + 1, peginAddress)

\* ------------------------------------------------------------------- state
VARIABLES
    locks,      \* backend: wallet output -> lock token or NoLock
    unspent,    \* backend: the wallet's unspent outputs
    walletTxs,  \* backend: the transactions in the wallet's local view
    chgIdx,     \* backend: number of change addresses handed out
    version,    \* backend: the version it reports
    LndVerson,  \* the cached version, in hundredths; 0 when unknown
    cfg,        \* config.Config: PeginTxId, PeginAmount, PeginAddress, PeginFeeRate
    pc,         \* where the running request is
    kind,       \* the running request: "pegin" or "bump"
    args,       \* SendCoinsWithUtxos: utxos, addr, amount, feeRate, subtract
    st,         \* SendCoinsWithUtxos: its local variables
    bump,       \* BumpPeginFee: feeRate, tx; the pending id and amount it found
    ret,        \* what the running call returned
    issued,     \* the backend calls the running request has made
    made,       \* the wallet outputs the running attempt has reserved
    funded,     \* a funding call of the running attempt has succeeded
    published,  \* the bytes the running attempt passed to PublishTransaction
    attempts,   \* re-funding attempts of the fee-subtraction loop
    rels,       \* the releaseOutputs calls of the last step
    site,       \* the statement the running call returned from
    faults,     \* backend failures so far
    opsDone,    \* requests completed so far
    depth,      \* backend: transaction id -> confirmations, for the confirmed ones
    fn,         \* a single call of a function: its arguments and its result
    tm,         \* startTimer: where the running tick is, and its locals
    log,        \* confirmation checks and claim attempts made so far
    forwardingEvents,  \* the forwarding events fetched so far, in fetch order
    history     \* backend: its forwarding events in time order, and its clock

backendVars == <<locks, unspent, walletTxs, chgIdx, version>>
frameVars == <<pc, kind, args, st, bump, ret>>
ghostVars == <<issued, made, funded, published, attempts, rels, site, faults, opsDone>>
statVars == <<forwardingEvents, history>>
appVars == <<depth, fn, tm, log, statVars>>
vars == <<locks, unspent, walletTxs, chgIdx, version, LndVerson, cfg, pc, kind,
          args, st, bump, ret, issued, made, funded, published, attempts, rels,
          site, faults, opsDone, depth, fn, tm, log, forwardingEvents, history>>

NoPsbt == [ins |-> <<>>, outs |-> <<>>]
NoTx == [ins |-> <<>>, outs |-> <<>>]
NoArgs == [utxos |-> <<>>, addr |-> PeginAddr, amount |-> 0, feeRate |-> 0,
           subtract |-> FALSE]
NoSt == [lockId |-> internalLockId, outputs |-> <<>>, psbt |-> NoPsbt, fee |-> 0,
         haircut |-> 0, finalAmount |-> 0, rawTx |-> <<>>, msgTx |-> NoTx]
NoBump == [feeRate |-> 0, tx |-> NoTx, oldTxId |-> NoTxId, oldAmount |-> 0]
NoRet == [ok |-> FALSE, err |-> "", TxId |-> NoTxId, RawHex |-> <<>>, AmountSat |-> 0]

\* no function call under way; the timer between two ticks
NoCall == [name |-> "none", done |-> FALSE]
NoTick == [pc |-> "wait", rawTx |-> NoTxId, attempted |-> FALSE]
NoHistory == [events |-> <<>>, now |-> 0]
NoLog == [checks |-> {}, claims |-> <<>>, clears |-> {}, mines |-> 0, pegins |-> {}]

\* return nil, err
Failure(e) == [ok |-> FALSE, err |-> e, TxId |-> NoTxId, RawHex |-> <<>>, AmountSat |-> 0]

\* doCPFP.  called: a BumpFee request was sent, for the output outputIndex of
\* the pending transaction.  fail: the backend fails the request.
doCPFP(txs, outputs, peginTxId, peginAddress, fail) ==
    IF Len(outputs) = 1
    THEN [err |-> "no change output", called |-> FALSE, outputIndex |-> 0]
    ELSE LET outputIndex == changeIndexFrom(outputs, 1, peginAddress)
         IN  [err |-> IF fail \/ ~BumpFeeAccepts(txs, peginTxId, outputIndex)
                      THEN "BumpFee" ELSE "",
              called |-> TRUE, outputIndex |-> outputIndex]

\* tx.NumConfirmations: the backend reports 0 for an unconfirmed transaction
NumConfirmations(d, txid) ==
    IF \E e \in d : e.id = txid THEN (CHOOSE e \in d : e.id = txid).n ELSE 0

\* getTransaction returning an entry of the list without comparing ids
getTransaction_AnyEntry(txs, txid, fail) ==
    IF fail THEN [ok |-> FALSE, err |-> "GetTransactions", tx |-> NoTx]
    ELSE IF txs # {}
    THEN [ok |-> TRUE, err |-> "", tx |-> CHOOSE t \in txs : TRUE]
    ELSE [ok |-> FALSE, err |-> "txid not found", tx |-> NoTx]

\* getTransaction: GetTransactions, then the entry with this id.  fail: the
\* GetTransactions call fails.
getTransaction(txs, txid, fail) ==
    IF fail THEN [ok |-> FALSE, err |-> "GetTransactions", tx |-> NoTx]
    ELSE IF TxsWithId(txs, txid) # {}
    THEN [ok |-> TRUE, err |-> "", tx |-> CHOOSE t \in TxsWithId(txs, txid) : TRUE]
    ELSE [ok |-> FALSE, err |-> "txid not found", tx |-> NoTx]

\* GetTxConfirmations taking any output for a change output
GetTxConfirmations_AnyOutput(txs, d, txid, fail) ==
    LET r == getTransaction(txs, txid, fail)
    IN  IF r.ok
        THEN [confs |-> NumConfirmations(d, txid), canBump |-> Len(r.tx.outs) > 0]
        ELSE [confs |-> -1, canBump |-> FALSE]

\* GetTxConfirmations: the number of confirmations and whether the
\* transaction can be fee bumped; -1 and false when getTransaction failed
GetTxConfirmations(txs, d, txid, fail) ==
    LET r == getTransaction(txs, txid, fail)
    IN  IF r.ok
        THEN [confs |-> NumConfirmations(d, txid), canBump |-> Len(r.tx.outs) > 1]
        ELSE [confs |-> -1, canBump |-> FALSE]

Init ==
    /\ locks = [o \in Outpoints |-> NoLock]
    /\ unspent = Outpoints
    /\ walletTxs = {}
    /\ chgIdx = 0
    /\ version \in Versions
    /\ LndVerson = 0
    /\ cfg = [PeginTxId |-> NoTxId, PeginAmount |-> 0, PeginAddress |-> PeginAddr,
              PeginFeeRate |-> 0, PeginClaimScript |-> 0]
    /\ pc = "idle"
    /\ kind = "none"
    /\ args = NoArgs
    /\ st = NoSt
    /\ bump = NoBump
    /\ ret = NoRet
    /\ issued = {}
    /\ made = {}
    /\ funded = FALSE
    /\ published = <<>>
    /\ attempts = 0
    /\ rels = <<>>
    /\ site = "none"
    /\ faults = 0
    /\ opsDone = 0
    /\ depth = {}
    /\ fn = NoCall
    /\ tm = NoTick
    /\ log = NoLog
    /\ forwardingEvents = <<>>
    /\ history = NoHistory

\* what the backend may still fail at
FaultFlags == IF faults < MaxFaults THEN BOOLEAN ELSE {FALSE}
FailAts(n) == IF faults < MaxFaults THEN 0..n ELSE {0}

CallsIf(b, name) == IF b THEN {name} ELSE {}

\* ------------------------------------------------------------ the requests
\* peginHandler up to the send: the amount is saved, then the coins are sent
PeginRequest ==
    /\ UNCHANGED appVars
    /\ pc = "idle"
    /\ opsDone < MaxOps
    /\ \E utxos \in UtxoLists, addr \in {PeginAddr, BadAddr}, amount \in Amounts,
          feeRate \in FeeRates, subtract \in BOOLEAN :
          /\ args' = [utxos |-> utxos, addr |-> addr, amount |-> amount,
                      feeRate |-> feeRate, subtract |-> subtract]
          /\ cfg' = [cfg EXCEPT !.PeginAmount = amount, !.PeginAddress = addr]
    /\ pc' = "send"
    /\ kind' = "pegin"
    /\ st' = [NoSt EXCEPT !.finalAmount = args'.amount]
    /\ bump' = NoBump
    /\ ret' = NoRet
    /\ issued' = {}
    /\ made' = {}
    /\ funded' = FALSE
    /\ published' = <<>>
    /\ attempts' = 0
    /\ rels' = <<>>
    /\ site' = "none"
    /\ UNCHANGED <<backendVars, LndVerson, faults, opsDone>>

\* bumpfeeHandler up to the bump: a pending peg-in is required
BumpRequest ==
    /\ UNCHANGED appVars
    /\ pc = "idle"
    /\ opsDone < MaxOps
    /\ cfg.PeginTxId # NoTxId
    /\ \E feeRate \in FeeRates :
          bump' = [feeRate |-> feeRate, tx |-> NoTx, oldTxId |-> cfg.PeginTxId,
                   oldAmount |-> cfg.PeginAmount]
    /\ pc' = "bump"
    /\ kind' = "bump"
    /\ args' = NoArgs
    /\ st' = NoSt
    /\ ret' = NoRet
    /\ issued' = {}
    /\ made' = {}
    /\ funded' = FALSE
    /\ published' = <<>>
    /\ attempts' = 0
    /\ rels' = <<>>
    /\ site' = "none"
    /\ UNCHANGED <<backendVars, LndVerson, cfg, faults, opsDone>>

\* ------------------------------------------------------ SendCoinsWithUtxos
\* SentResult with the id taken over the witness data as well
SentResult_WitnessId(rawTx, msgTx, finalAmount) ==
    [ok |-> TRUE, err |-> "", TxId |-> Serialize(msgTx), RawHex |-> HexEncode(rawTx),
     AmountSat |-> finalAmount]

\* result := SentResult{RawHex, TxId, AmountSat}
SentResult(rawTx, msgTx, finalAmount) ==
    [ok |-> TRUE, err |-> "", TxId |-> TxHash(msgTx), RawHex |-> HexEncode(rawTx),
     AmountSat |-> finalAmount]

\* the amount left as computed before the funding, never read back
ConfirmedAmount_Requested(subtract, msgTx, finalAmount) == finalAmount

\* confirm the final amount sent: with subtractFeeFromAmount it is read from
\* the first output of the deserialized transaction
ConfirmedAmount(subtract, msgTx, finalAmount) ==
    IF subtract THEN msgTx.outs[1].value ELSE finalAmount

\* the call returns an error from the statement named where
ReturnError(e, where) ==
    /\ pc' = "returned"
    /\ ret' = Failure(e)
    /\ site' = where

\* lndConnection fails
Send_NoConnection ==
    /\ UNCHANGED appVars
    /\ pc = "send"
    /\ rels' = <<>>
    /\ faults < MaxFaults
    /\ faults' = faults + 1
    /\ ReturnError("connection", "lndConnection")
    /\ UNCHANGED <<backendVars, LndVerson, cfg, kind, args, st, bump, issued, made,
                   funded, published, attempts, opsDone>>

\* the outpoint list is never looked at
NeedsUtxos_Never(subtract, utxos) == FALSE

\* if subtractFeeFromAmount { if len(*utxos) == 0 { return nil, error } }
NeedsUtxos(subtract, utxos) == subtract /\ Len(utxos) = 0

\* subtractFeeFromAmount without a selected output
Send_NoUtxos ==
    /\ UNCHANGED appVars
    /\ pc = "send"
    /\ rels' = <<>>
    /\ NeedsUtxos(args.subtract, args.utxos)
    /\ ReturnError("validation", "no utxos")
    /\ UNCHANGED <<backendVars, LndVerson, cfg, kind, args, st, bump, issued, made,
                   funded, published, attempts, faults, opsDone>>

\* the token is never changed to the custom one
LockIdFor_Internal(subtract, canRBF) == internalLockId

\* lockId := internalLockId, changed to myLockId when subtractFeeFromAmount
\* && CanRBF()
LockIdFor(subtract, canRBF) == IF subtract /\ canRBF THEN myLockId ELSE internalLockId

\* subtractFeeFromAmount && CanRBF(): the PSBT is built by fundPsbtSpendAll
Send_FundSpendAll ==
    /\ UNCHANGED appVars
    /\ pc = "send"
    /\ args.subtract
    /\ ~NeedsUtxos(args.subtract, args.utxos)
    /\ \E infoFail \in FaultFlags, list \in FaultFlags, fund \in FaultFlags,
          leaseAt \in FailAts(Len(WalletOrder) * Len(args.utxos)),
          relAt \in FailAts(Len(args.utxos)), strict \in BOOLEAN,
          extra \in SUBSET Outpoints :
          LET c == CanRBF(LndVerson, version, infoFail)
              r == fundPsbtSpendAll(locks, unspent, args.utxos, args.addr, args.feeRate,
                      [list |-> list, leaseAt |-> leaseAt, fund |-> fund,
                       extra |-> extra, relAt |-> relAt, strict |-> strict])
          IN  /\ c.ret
              /\ r.admissible
              /\ faults + c.faults + r.faults <= MaxFaults
              /\ faults' = faults + c.faults + r.faults
              /\ LndVerson' = c.lv
              /\ locks' = r.locks
              /\ issued' = issued \cup CallsIf(c.called, "GetInfo") \cup r.issued
              /\ made' = made \cup r.leased
              /\ rels' = r.rels
              /\ IF r.ok
                 THEN /\ pc' = "finalize"
                      /\ st' = [st EXCEPT !.lockId = LockIdFor(args.subtract, c.ret),
                                          !.psbt = r.psbt]
                      /\ funded' = TRUE
                      /\ site' = "fundPsbtSpendAll"
                      /\ UNCHANGED ret
                 ELSE /\ ReturnError(r.site, "fundPsbtSpendAll")
                      /\ st' = [st EXCEPT !.lockId = LockIdFor(args.subtract, c.ret)]
                      /\ UNCHANGED funded
    /\ UNCHANGED <<unspent, walletTxs, chgIdx, version, cfg, kind, args, bump,
                   published, attempts, opsDone>>

\* the destination output is asked for in every first funding
FirstOutputs_Always(addr, amount, subtract) == <<[addr |-> addr, value |-> amount]>>

\* outputs := make(map[string]uint64); outputs[addr] = uint64(amount) only
\* without subtractFeeFromAmount
FirstOutputs(addr, amount, subtract) ==
    IF subtract THEN <<>> ELSE <<[addr |-> addr, value |-> amount]>>

\* otherwise the PSBT is funded from the raw template; with
\* subtractFeeFromAmount the first funding has no outputs at all
Send_FundRaw ==
    /\ UNCHANGED appVars
    /\ pc = "send"
    /\ rels' = <<>>
    /\ ~NeedsUtxos(args.subtract, args.utxos)
    /\ \E infoFail \in (IF args.subtract THEN FaultFlags ELSE {FALSE}),
          fail \in FaultFlags, sel \in SUBSET Outpoints, pos \in {0, 1} :
          LET c == IF args.subtract THEN CanRBF(LndVerson, version, infoFail)
                   ELSE [ret |-> FALSE, lv |-> LndVerson, called |-> FALSE, faults |-> 0]
              outputs == FirstOutputs(args.addr, args.amount, args.subtract)
              r == fundPsbt(locks, unspent, chgIdx, args.utxos, outputs, args.feeRate,
                            sel, pos, fail)
          IN  /\ ~c.ret
              /\ infoFail => c.faults = 1
              /\ r.admissible
              /\ faults + c.faults + r.faults <= MaxFaults
              /\ faults' = faults + c.faults + r.faults
              /\ LndVerson' = c.lv
              /\ locks' = r.locks
              /\ chgIdx' = r.chg
              /\ issued' = issued \cup CallsIf(c.called, "GetInfo")
                                  \cup CallsIf(r.called, "FundPsbt")
              /\ IF r.ok
                 THEN /\ pc' = IF args.subtract THEN "getfee" ELSE "finalize"
                      /\ st' = [st EXCEPT !.outputs = outputs, !.psbt = r.psbt]
                      /\ made' = made \cup Range(r.psbt.ins)
                      /\ funded' = TRUE
                      /\ site' = "fundPsbt"
                      /\ UNCHANGED ret
                 ELSE /\ ReturnError("FundPsbt", "fundPsbt")
                      /\ st' = [st EXCEPT !.outputs = outputs]
                      /\ UNCHANGED <<made, funded>>
    /\ UNCHANGED <<unspent, walletTxs, version, cfg, kind, args, bump, published,
                   attempts, opsDone>>

\* fee, err := bitcoin.GetFeeFromPsbt(&psbtBytes)
Send_GetFee ==
    /\ UNCHANGED appVars
    /\ pc = "getfee"
    /\ rels' = <<>>
    /\ \E fail \in FaultFlags :
          IF fail
          THEN /\ faults' = faults + 1
               /\ ReturnError("GetFeeFromPsbt", "GetFeeFromPsbt")
               /\ UNCHANGED st
          ELSE /\ st' = [st EXCEPT !.fee = GetFeeFromPsbt(st.psbt), !.haircut = 0]
               /\ pc' = "loop"
               /\ site' = "GetFeeFromPsbt"
               /\ UNCHANGED <<ret, faults>>
    /\ UNCHANGED <<backendVars, LndVerson, cfg, kind, args, bump, issued, made,
                   funded, published, attempts, opsDone>>

\* an iteration that funds again without releasing first
LoopRelease_Skipped(lk, utxos, lockId, failAt, strict) ==
    [locks |-> lk, err |-> FALSE, calls |-> 0, faults |-> 0, other |-> FALSE]

\* err = releaseOutputs(cl, utxos, &lockId) at the head of each iteration
LoopRelease(lk, utxos, lockId, failAt, strict) ==
    releaseOutputs(lk, utxos, lockId, failAt, strict)

\* the amount left without the floor at zero
LoopAmount_NoFloor(amount, fee, haircut) == amount - fee - haircut

\* finalAmount = int64(amount) - toSats(fee) - haircut, and 0 when that is
\* negative
LoopAmount(amount, fee, haircut) ==
    IF amount - fee - haircut < 0 THEN 0 ELSE amount - fee - haircut

\* one iteration of the haircut loop: release, recompute the amount, fund
\* again; after the last iteration the error of the last funding is returned
Send_Loop ==
    /\ UNCHANGED appVars
    /\ pc = "loop"
    /\ \E relAt \in FailAts(Len(args.utxos)), strict \in BOOLEAN,
          fail \in FaultFlags, pos \in {0, 1} :
          LET rel == LoopRelease(locks, args.utxos, st.lockId, relAt, strict)
              finalAmount == LoopAmount(args.amount, st.fee, st.haircut)
              outputs == <<[addr |-> args.addr, value |-> finalAmount]>>
              r == fundPsbt(rel.locks, unspent, chgIdx, args.utxos, outputs,
                            args.feeRate, {}, pos, fail)
              last == releaseOutputs(r.locks, args.utxos, st.lockId, 0, strict)
          IN  /\ Relevant(rel, relAt, strict)
              /\ issued' = issued \cup CallsIf(rel.calls > 0, "ReleaseOutput")
                                  \cup CallsIf(~rel.err /\ r.called, "FundPsbt")
              /\ rels' = <<ReleaseCall(locks, args.utxos, st.lockId, rel)>> \o
                          (IF rel.err \/ r.ok \/ st.haircut + HaircutStep <= HaircutMax
                           THEN <<>>
                           ELSE <<ReleaseCall(r.locks, args.utxos, st.lockId, last)>>)
              /\ IF rel.err
                 THEN /\ ~fail /\ pos = 0
                      /\ faults' = faults + rel.faults
                      /\ locks' = rel.locks
                      /\ ReturnError("ReleaseOutput", "loop release")
                      /\ UNCHANGED <<st, chgIdx, made, funded, attempts>>
                 ELSE /\ r.admissible
                      /\ faults + rel.faults + r.faults <= MaxFaults
                      /\ faults' = faults + rel.faults + r.faults
                      /\ attempts' = attempts + 1
                      /\ chgIdx' = r.chg
                      /\ IF r.ok
                         THEN /\ locks' = r.locks
                              /\ st' = [st EXCEPT !.finalAmount = finalAmount,
                                                  !.outputs = outputs, !.psbt = r.psbt]
                              /\ pc' = "finalize"
                              /\ site' = "loop funded"
                              /\ made' = made \cup Range(r.psbt.ins)
                              /\ funded' = TRUE
                              /\ UNCHANGED ret
                         ELSE IF st.haircut + HaircutStep <= HaircutMax
                         THEN /\ locks' = r.locks
                              /\ st' = [st EXCEPT !.finalAmount = finalAmount,
                                                  !.outputs = outputs,
                                                  !.haircut = st.haircut + HaircutStep]
                              /\ pc' = "loop"
                              /\ site' = "loop retry"
                              /\ UNCHANGED <<ret, made, funded>>
                         ELSE /\ locks' = last.locks
                              /\ st' = [st EXCEPT !.finalAmount = finalAmount,
                                                  !.outputs = outputs,
                                                  !.haircut = st.haircut + HaircutStep]
                              /\ ReturnError("FundPsbt", "loop exhausted")
                              /\ UNCHANGED <<made, funded>>
    /\ UNCHANGED <<unspent, walletTxs, version, LndVerson, cfg, kind, args, bump,
                   published, opsDone>>

\* FinalizePsbt, then the local deserialization of the raw transaction
Send_Finalize ==
    /\ UNCHANGED appVars
    /\ pc = "finalize"
    /\ \E fail \in FaultFlags, cut \in FaultFlags, wit \in {1, 2},
          relAt \in FailAts(Len(args.utxos)), strict \in BOOLEAN :
          LET rel == releaseOutputs(locks, args.utxos, st.lockId, relAt, strict)
              rawTx == FinalizePsbt(st.psbt, wit, cut)
              msgTx == Deserialize(rawTx)
          IN  IF fail
              THEN /\ ~cut /\ wit = 1
                   /\ Relevant(rel, relAt, strict)
                   /\ 1 + faults + rel.faults <= MaxFaults
                   /\ faults' = faults + 1 + rel.faults
                   /\ locks' = rel.locks
                   /\ issued' = issued \cup {"FinalizePsbt"}
                                       \cup CallsIf(rel.calls > 0, "ReleaseOutput")
                   /\ rels' = <<ReleaseCall(locks, args.utxos, st.lockId, rel)>>
                   /\ ReturnError("FinalizePsbt", "FinalizePsbt")
                   /\ UNCHANGED st
              ELSE /\ relAt = 0 /\ ~strict
                   /\ rels' = <<>>
                   /\ faults' = faults + BoolToNat(cut)
                   /\ issued' = issued \cup {"FinalizePsbt"}
                   /\ UNCHANGED locks
                   /\ IF ~msgTx.ok
                      THEN /\ ReturnError("Deserialize", "Deserialize")
                           /\ st' = [st EXCEPT !.rawTx = rawTx]
                      ELSE /\ st' = [st EXCEPT !.rawTx = rawTx,
                                               !.msgTx = [ins  |-> msgTx.ins,
                                                          outs |-> msgTx.outs,
                                                          wit  |-> msgTx.wit]]
                           /\ pc' = "publish"
                           /\ site' = "FinalizePsbt"
                           /\ UNCHANGED ret
    /\ UNCHANGED <<unspent, walletTxs, chgIdx, version, LndVerson, cfg, kind, args,
                   bump, made, funded, published, attempts, opsDone>>

\* the outpoints are released before the successful return as well
LocksOnSuccess_Released(lk, utxos, lockId) ==
    releaseOutputs(lk, utxos, lockId, 0, FALSE).locks

\* the lock table after a PublishTransaction that succeeded: the call goes
\* on to build its result and issues no release
LocksOnSuccess(lk, utxos, lockId) == lk

\* PublishTransaction and the result
Send_Publish ==
    /\ UNCHANGED appVars
    /\ pc = "publish"
    /\ \E fail \in FaultFlags, relAt \in FailAts(Len(args.utxos)), strict \in BOOLEAN :
          LET p == PublishTransaction(unspent, walletTxs, st.rawTx, fail)
              rel == releaseOutputs(locks, args.utxos, st.lockId, relAt, strict)
              finalAmount == ConfirmedAmount(args.subtract, st.msgTx, st.finalAmount)
          IN  /\ published' = st.rawTx
              /\ IF ~p.ok
                 THEN /\ Relevant(rel, relAt, strict)
                      /\ BoolToNat(fail) + faults + rel.faults <= MaxFaults
                      /\ faults' = faults + BoolToNat(fail) + rel.faults
                      /\ locks' = rel.locks
                      /\ issued' = issued \cup {"PublishTransaction"}
                                          \cup CallsIf(rel.calls > 0, "ReleaseOutput")
                      /\ rels' = <<ReleaseCall(locks, args.utxos, st.lockId, rel)>>
                      /\ ReturnError("PublishTransaction", "PublishTransaction")
                      /\ UNCHANGED <<unspent, walletTxs, st>>
                 ELSE /\ relAt = 0 /\ ~strict
                      /\ rels' = <<>>
                      /\ unspent' = p.unspent
                      /\ walletTxs' = p.txs
                      /\ issued' = issued \cup {"PublishTransaction"}
                      /\ st' = [st EXCEPT !.finalAmount = finalAmount]
                      /\ ret' = SentResult(st.rawTx, st.msgTx, finalAmount)
                      /\ pc' = "returned"
                      /\ site' = "sent"
                      /\ locks' = LocksOnSuccess(locks, args.utxos, st.lockId)
                      /\ UNCHANGED faults
    /\ UNCHANGED <<chgIdx, version, LndVerson, cfg, kind, args, bump, made, funded,
                   attempts, opsDone>>

\* ------------------------------------------------------------ BumpPeginFee
\* getTransaction(config.Config.PeginTxId), then the capability check
Bump_Start ==
    /\ UNCHANGED appVars
    /\ pc = "bump"
    /\ rels' = <<>>
    /\ \E txFail \in FaultFlags, infoFail \in FaultFlags :
          LET found == TxsWithId(walletTxs, cfg.PeginTxId)
              c == CanRBF(LndVerson, version, infoFail)
          IN  /\ issued' = issued \cup {"GetTransactions"}
                                  \cup CallsIf(~txFail /\ found # {} /\ c.called, "GetInfo")
              /\ IF txFail
                 THEN /\ ~infoFail
                      /\ faults' = faults + 1
                      /\ ReturnError("GetTransactions", "getTransaction")
                      /\ UNCHANGED <<LndVerson, bump>>
                 ELSE IF found = {}
                 THEN /\ ~infoFail
                      /\ ReturnError("txid not found", "getTransaction")
                      /\ UNCHANGED <<LndVerson, bump, faults>>
                 ELSE /\ infoFail => c.faults = 1
                      /\ faults' = faults + c.faults
                      /\ LndVerson' = c.lv
                      /\ bump' = [bump EXCEPT !.tx = CHOOSE t \in found : TRUE]
                      /\ pc' = IF c.ret THEN "bump_remove" ELSE "bump_cpfp"
                      /\ site' = "CanRBF"
                      /\ UNCHANGED ret
    /\ UNCHANGED <<backendVars, cfg, kind, args, st, made, funded, published,
                   attempts, opsDone>>

\* doCPFP and the result of the CPFP path
Bump_CPFP ==
    /\ UNCHANGED appVars
    /\ pc = "bump_cpfp"
    /\ rels' = <<>>
    /\ \E fail \in FaultFlags :
          LET r == doCPFP(walletTxs, bump.tx.outs, cfg.PeginTxId, cfg.PeginAddress, fail)
          IN  IF ~r.called
              THEN /\ ~fail
                   /\ ReturnError(r.err, "doCPFP")
                   /\ UNCHANGED <<issued, faults>>
              ELSE /\ issued' = issued \cup {"BumpFee"}
                   /\ faults' = faults + BoolToNat(fail)
                   /\ IF r.err # ""
                      THEN ReturnError(r.err, "doCPFP")
                      ELSE /\ ret' = [ok |-> TRUE, err |-> "", TxId |-> cfg.PeginTxId,
                                      RawHex |-> <<>>, AmountSat |-> cfg.PeginAmount]
                           /\ pc' = "returned"
                           /\ site' = "cpfp"
    /\ UNCHANGED <<backendVars, LndVerson, cfg, kind, args, st, bump, made, funded,
                   published, attempts, opsDone>>

\* the fee is never taken from the amount
SubtractFee_Never(tx) == FALSE

\* BumpPeginFee: subtractFeeFromAmount is len(tx.OutputDetails) == 1
SubtractFee(tx) == Len(tx.outs) = 1

\* the status of the removal is not looked at
RemovalRefused_IgnoresStatus(res) == res.err

\* BumpPeginFee gives up when the removal failed or reports another status
RemovalRefused(res) == res.err \/ res.status # "Successfully removed transaction"

\* the former inputs are released although the removal was refused
LocksOnRefusal_Released(lk, utxos) ==
    releaseOutputs(releaseOutputs(lk, utxos, internalLockId, 0, FALSE).locks,
                   utxos, myLockId, 0, FALSE).locks

\* return nil, err after RemoveTransaction: releaseOutputs is not reached
LocksOnRefusal(lk, utxos) == lk

\* RemoveTransaction, the release of the former inputs under both tokens,
\* and the call of SendCoinsWithUtxos
Bump_Remove ==
    /\ UNCHANGED appVars
    /\ pc = "bump_remove"
    /\ \E rmFail \in FaultFlags, badStatus \in FaultFlags,
          rel1At \in FailAts(Len(bump.tx.ins)), rel2At \in FailAts(Len(bump.tx.ins)),
          strict \in BOOLEAN :
          LET rm == RemoveTransaction(unspent, walletTxs, bump.tx, rmFail, badStatus)
              utxos == [i \in DOMAIN bump.tx.ins |-> OutpointString(bump.tx.ins[i])]
              rel1 == releaseOutputs(locks, utxos, internalLockId, rel1At, strict)
              rel2 == releaseOutputs(rel1.locks, utxos, myLockId, rel2At, strict)
              rmFaults == BoolToNat(rmFail \/ badStatus)
          IN  /\ ~(rmFail /\ badStatus)
              /\ unspent' = rm.unspent
              /\ walletTxs' = rm.txs
              /\ issued' = issued \cup {"RemoveTransaction"}
                              \cup CallsIf(~RemovalRefused(rm) /\ rel1.calls + rel2.calls > 0,
                                           "ReleaseOutput")
              /\ IF RemovalRefused(rm)
                 THEN /\ rel1At = 0 /\ rel2At = 0 /\ ~strict
                      /\ faults' = faults + rmFaults
                      /\ ReturnError(IF rm.err THEN "RemoveTransaction"
                                     ELSE "cannot remove the previous transaction",
                                     "RemoveTransaction")
                      /\ rels' = <<>>
                      /\ locks' = LocksOnRefusal(locks, utxos)
                      /\ UNCHANGED <<args, st>>
                 ELSE /\ rels' = <<ReleaseCall(locks, utxos, internalLockId, rel1),
                                   ReleaseCall(rel1.locks, utxos, myLockId, rel2)>>
                      /\ rel1At # 0 => rel1.faults = 1
                      /\ rel2At # 0 => rel2.faults = 1
                      /\ strict => (rel1.other \/ rel2.other)
                      /\ faults + rmFaults + rel1.faults + rel2.faults <= MaxFaults
                      /\ faults' = faults + rmFaults + rel1.faults + rel2.faults
                      /\ locks' = rel2.locks
                      /\ args' = [utxos |-> utxos, addr |-> cfg.PeginAddress,
                                  amount |-> cfg.PeginAmount, feeRate |-> bump.feeRate,
                                  subtract |-> SubtractFee(bump.tx)]
                      /\ st' = [NoSt EXCEPT !.finalAmount = cfg.PeginAmount]
                      /\ pc' = "send"
                      /\ site' = "RemoveTransaction"
                      /\ UNCHANGED ret
    /\ UNCHANGED <<chgIdx, version, LndVerson, cfg, kind, bump, made, funded,
                   published, attempts, opsDone>>

\* ------------------------------------------------------------- the callers
\* the locals of a finished call are gone
Forget ==
    /\ kind' = "none"
    /\ args' = NoArgs
    /\ st' = NoSt
    /\ bump' = NoBump
    /\ ret' = NoRet
    /\ issued' = {}
    /\ made' = {}
    /\ funded' = FALSE
    /\ published' = <<>>
    /\ attempts' = 0
    /\ rels' = <<>>
    /\ site' = "none"

\* peginHandler after the send: the id and the fee rate are saved on success
peginHandler_Return ==
    /\ UNCHANGED appVars
    /\ pc = "returned"
    /\ kind = "pegin"
    /\ cfg' = IF ret.ok
              THEN [cfg EXCEPT !.PeginTxId = ret.TxId, !.PeginFeeRate = args.feeRate]
              ELSE cfg
    /\ pc' = "idle"
    /\ opsDone' = opsDone + 1
    /\ Forget
    /\ UNCHANGED <<backendVars, LndVerson, faults>>

\* the id of a SentResult becomes the pending peg-in
PendingPegin(c, result) == [c EXCEPT !.PeginTxId = result.TxId]

\* bumpfeeHandler after the bump: the new rate is saved on success
bumpfeeHandler_Return ==
    /\ UNCHANGED appVars
    /\ pc = "returned"
    /\ kind = "bump"
    /\ cfg' = IF ret.ok
              THEN [PendingPegin(cfg, ret) EXCEPT !.PeginFeeRate = bump.feeRate]
              ELSE cfg
    /\ pc' = "idle"
    /\ opsDone' = opsDone + 1
    /\ Forget
    /\ UNCHANGED <<backendVars, LndVerson, faults>>

Next ==
    \/ PeginRequest
    \/ BumpRequest
    \/ Send_NoConnection
    \/ Send_NoUtxos
    \/ Send_FundSpendAll
    \/ Send_FundRaw
    \/ Send_GetFee
    \/ Send_Loop
    \/ Send_Finalize
    \/ Send_Publish
    \/ Bump_Start
    \/ Bump_CPFP
    \/ Bump_Remove
    \/ peginHandler_Return
    \/ bumpfeeHandler_Return

Spec == Init /\ [][Next]_vars

\* ------------------------------------------------- single function calls
\* The functions below are called once on arguments drawn from small sets:
\* doCPFP on the outputs of a pending transaction, GetTxConfirmations on a
\* transaction history.
OutputChoices ==
    { [addr |-> a, value |-> v] : a \in {PeginAddr, ChangeAddr(0)}, v \in {1000, 500000} }

OutputLists == SeqsUpTo(OutputChoices, MaxOuts)

\* a peg-in without change and one with change
Histories ==
    SUBSET { [ins |-> <<OutA>>, outs |-> <<[addr |-> PeginAddr, value |-> 500000]>>],
             [ins |-> <<OutB>>, outs |-> <<[addr |-> ChangeAddr(0), value |-> 1000],
                                           [addr |-> PeginAddr, value |-> 500000]>>] }

\* confirmations the backend may report for a transaction
Depths == {0, 1, 102}

DepthsOf(txs) ==
    { { [id |-> TxHash(t), n |-> f[t]] : t \in { u \in txs : f[u] > 0 } } :
        f \in [txs -> Depths] }

\* lock tables the wallet may be in when a function is called: an output
\* is free or leased by an earlier funding
WalletLocks == [Outpoints -> {NoLock, internalLockId}]

\* the program at rest, but for the history and the call to make
InitCall ==
    /\ chgIdx = 0
    /\ version \in ReportedVersions
    /\ LndVerson = 0
    /\ pc = "idle"
    /\ kind = "none"
    /\ args = NoArgs
    /\ st = NoSt
    /\ bump = NoBump
    /\ ret = NoRet
    /\ issued = {}
    /\ made = {}
    /\ funded = FALSE
    /\ published = <<>>
    /\ attempts = 0
    /\ rels = <<>>
    /\ site = "none"
    /\ faults = 0
    /\ opsDone = 0
    /\ tm = NoTick
    /\ log = NoLog
    /\ forwardingEvents = <<>>
    /\ history = NoHistory
    /\ \/ \E outputs \in OutputLists :
             LET tx == [ins |-> <<OutA>>, outs |-> outputs]
             IN  /\ version \in Versions
                 /\ locks = [o \in Outpoints |-> NoLock]
                 /\ unspent = Outpoints
                 /\ walletTxs = {tx}
                 /\ depth = {}
                 /\ cfg = [PeginTxId |-> TxHash(tx), PeginAmount |-> 500000,
                           PeginAddress |-> PeginAddr, PeginFeeRate |-> 5, PeginClaimScript |-> 0]
                 /\ fn = [name |-> "doCPFP", done |-> FALSE, outputs |-> outputs]
       \/ \E txs \in Histories, txid \in { TxHash(t) : t \in UNION Histories } :
             /\ version \in Versions
             /\ locks = [o \in Outpoints |-> NoLock]
             /\ unspent = Outpoints
             /\ walletTxs = txs
             /\ depth \in DepthsOf(txs)
             /\ cfg = [PeginTxId |-> txid, PeginAmount |-> 500000,
                       PeginAddress |-> PeginAddr, PeginFeeRate |-> 5, PeginClaimScript |-> 0]
             /\ fn = [name |-> "GetTxConfirmations", done |-> FALSE, txid |-> txid]
       \/ \E utxos \in UtxoLists, address \in {PeginAddr, BadAddr} :
             /\ utxos # <<>>
             /\ version \in Versions
             /\ locks \in WalletLocks
             /\ unspent \in SUBSET Outpoints
             /\ walletTxs = {}
             /\ depth = {}
             /\ cfg = [PeginTxId |-> NoTxId, PeginAmount |-> 0,
                       PeginAddress |-> address, PeginFeeRate |-> 0, PeginClaimScript |-> 0]
             /\ fn = [name |-> "fundPsbtSpendAll", done |-> FALSE, utxos |-> utxos,
                      address |-> address]
       \/ /\ locks = [o \in Outpoints |-> NoLock]
          /\ unspent = Outpoints
          /\ walletTxs = {}
          /\ depth = {}
          /\ cfg = [PeginTxId |-> NoTxId, PeginAmount |-> 0,
                    PeginAddress |-> PeginAddr, PeginFeeRate |-> 0, PeginClaimScript |-> 0]
          /\ fn = [name |-> "CanRBF", done |-> FALSE, answers |-> <<>>, reached |-> <<>>]

\* one call of doCPFP(cl, tx.GetOutputDetails(), feeRate)
Call_doCPFP ==
    /\ fn.name = "doCPFP"
    /\ ~fn.done
    /\ \E fail \in BOOLEAN :
          LET r == doCPFP(walletTxs, fn.outputs, cfg.PeginTxId, cfg.PeginAddress, fail)
          IN  /\ fail => r.called
              /\ fn' = [name |-> "doCPFP", done |-> TRUE, outputs |-> fn.outputs,
                        err |-> r.err, called |-> r.called,
                        outputIndex |-> r.outputIndex]
              /\ issued' = issued \cup CallsIf(r.called, "BumpFee")
    /\ UNCHANGED <<backendVars, LndVerson, cfg, frameVars, made, funded, published,
                   attempts, rels, site, faults, opsDone, depth, tm, log, statVars>>

\* one call of GetTxConfirmations(client, txid)
Call_GetTxConfirmations ==
    /\ fn.name = "GetTxConfirmations"
    /\ ~fn.done
    /\ \E fail \in BOOLEAN :
          LET r == GetTxConfirmations(walletTxs, depth, fn.txid, fail)
          IN  fn' = [name |-> "GetTxConfirmations", done |-> TRUE, txid |-> fn.txid,
                     failed |-> fail, confs |-> r.confs, canBump |-> r.canBump]
    /\ issued' = issued \cup {"GetTransactions"}
    /\ UNCHANGED <<backendVars, LndVerson, cfg, frameVars, made, funded, published,
                   attempts, rels, site, faults, opsDone, depth, tm, log, statVars>>

\* one call of fundPsbtSpendAll(cl, utxos, addr, feeRate)
Call_fundPsbtSpendAll ==
    /\ fn.name = "fundPsbtSpendAll"
    /\ ~fn.done
    /\ \E feeRate \in FeeRates, list \in FaultFlags, fund \in FaultFlags,
          leaseAt \in FailAts(Len(WalletOrder) * Len(fn.utxos)),
          relAt \in FailAts(Len(fn.utxos)), strict \in BOOLEAN,
          extra \in SUBSET Outpoints :
          LET f == [list |-> list, leaseAt |-> leaseAt, fund |-> fund,
                    extra |-> extra, relAt |-> relAt, strict |-> strict]
              t == SpendAllTemplate(locks, unspent, fn.utxos, fn.address, f)
              r == fundPsbtSpendAll(locks, unspent, fn.utxos, fn.address, feeRate, f)
          IN  /\ r.admissible
              /\ r.faults <= MaxFaults
              /\ faults' = r.faults
              /\ locks' = r.locks
              /\ issued' = r.issued
              /\ made' = r.leased
              /\ rels' = r.rels
              /\ site' = r.site
              /\ funded' = r.ok
              /\ fn' = [name |-> "fundPsbtSpendAll", done |-> TRUE, utxos |-> fn.utxos,
                        address |-> fn.address, built |-> t.built, tx |-> t.tx,
                        ExistingOutputIndex |-> t.ExistingOutputIndex,
                        leased |-> t.locks, ok |-> r.ok]
    /\ UNCHANGED <<unspent, walletTxs, chgIdx, version, LndVerson, cfg, frameVars,
                   published, attempts, opsDone, depth, tm, log, statVars>>

\* one call of CanRBF(), after the calls made before it: the answer and
\* whether the backend was reached are kept, LndVerson is what the call left
Call_CanRBF ==
    /\ fn.name = "CanRBF"
    /\ Len(fn.answers) < MaxCalls
    /\ \E infoFail \in FaultFlags :
          LET c == CanRBF(LndVerson, version, infoFail)
          IN  /\ infoFail => c.called
              /\ LndVerson' = c.lv
              /\ faults' = faults + c.faults
              /\ issued' = issued \cup CallsIf(c.called, "GetInfo")
              /\ fn' = [name |-> "CanRBF", done |-> Len(fn.answers) + 1 = MaxCalls,
                        answers |-> Append(fn.answers, c.ret),
                        reached |-> Append(fn.reached, c.faults = 0)]
    /\ UNCHANGED <<backendVars, cfg, frameVars, made, funded, published, attempts,
                   rels, site, opsDone, depth, tm, log, statVars>>

NextCall ==
    \/ Call_doCPFP
    \/ Call_GetTxConfirmations
    \/ Call_fundPsbtSpendAll
    \/ Call_CanRBF

CallSpec == InitCall /\ [][NextCall]_vars

\* ------------------------------------------- single SendCoinsWithUtxos calls
\* One call of SendCoinsWithUtxos on a wallet at rest, with the arguments
\* drawn in the initial state.  The amounts include ones of the size of the
\* fee and the haircuts: 700 is used up by the fee of one input and the
\* first haircuts, 3000 fits the smaller coin only after the last haircut.
SendAmounts == {700, 3000, 500000}

InitSend ==
    /\ locks = [o \in Outpoints |-> NoLock]
    /\ unspent = Outpoints
    /\ walletTxs = {}
    /\ chgIdx = 0
    /\ version \in Versions
    /\ LndVerson = 0
    /\ \E utxos \in UtxoLists, addr \in {PeginAddr, BadAddr}, amount \in SendAmounts,
          feeRate \in FeeRates, subtract \in BOOLEAN :
          /\ args = [utxos |-> utxos, addr |-> addr, amount |-> amount,
                     feeRate |-> feeRate, subtract |-> subtract]
          /\ cfg = [PeginTxId |-> NoTxId, PeginAmount |-> amount,
                    PeginAddress |-> addr, PeginFeeRate |-> 0, PeginClaimScript |-> 0]
          /\ st = [NoSt EXCEPT !.finalAmount = amount]
    /\ pc = "send"
    /\ kind = "pegin"
    /\ bump = NoBump
    /\ ret = NoRet
    /\ issued = {}
    /\ made = {}
    /\ funded = FALSE
    /\ published = <<>>
    /\ attempts = 0
    /\ rels = <<>>
    /\ site = "none"
    /\ faults = 0
    /\ opsDone = 0
    /\ depth = {}
    /\ fn = NoCall
    /\ tm = NoTick
    /\ log = NoLog
    /\ forwardingEvents = <<>>
    /\ history = NoHistory

NextSend ==
    \/ Send_NoConnection
    \/ Send_NoUtxos
    \/ Send_FundSpendAll
    \/ Send_FundRaw
    \/ Send_GetFee
    \/ Send_Loop
    \/ Send_Finalize
    \/ Send_Publish

SendSpec == InitSend /\ [][NextSend]_vars

\* ------------------------------------------ two SendCoinsWithUtxos calls
\* Two calls of SendCoinsWithUtxos that name the same outpoint, made by two
\* requests served at the same time.  One call runs on the variables of
\* the call frame; the other one is kept in fn.frame until the two change
\* places.  A call can be overtaken between any two of its steps.
Frame == [pc |-> pc, kind |-> kind, args |-> args, st |-> st, bump |-> bump,
          ret |-> ret, issued |-> issued, made |-> made, funded |-> funded,
          published |-> published, attempts |-> attempts, rels |-> rels,
          site |-> site]

InitConc ==
    /\ locks = [o \in Outpoints |-> NoLock]
    /\ unspent \in {Outpoints, {OutA}}
    /\ walletTxs = {}
    /\ chgIdx = 0
    /\ version \in Versions
    /\ LndVerson = 0
    /\ args = [utxos |-> <<OutpointString(OutA)>>, addr |-> PeginAddr,
               amount |-> 500000, feeRate |-> 5, subtract |-> TRUE]
    /\ cfg = [PeginTxId |-> NoTxId, PeginAmount |-> 500000, PeginAddress |-> PeginAddr,
              PeginFeeRate |-> 0, PeginClaimScript |-> 0]
    /\ st = [NoSt EXCEPT !.finalAmount = 500000]
    /\ pc = "send"
    /\ kind = "pegin"
    /\ bump = NoBump
    /\ ret = NoRet
    /\ issued = {}
    /\ made = {}
    /\ funded = FALSE
    /\ published = <<>>
    /\ attempts = 0
    /\ rels = <<>>
    /\ site = "none"
    /\ faults = 0
    /\ opsDone = 0
    /\ depth = {}
    /\ \E utxos \in {<<>>, <<OutpointString(OutA)>>} :
          fn = [name |-> "SendCoinsWithUtxos", done |-> FALSE, running |-> 1,
                frame |-> [Frame EXCEPT !.args.utxos = utxos]]
    /\ tm = NoTick
    /\ log = NoLog
    /\ forwardingEvents = <<>>
    /\ history = NoHistory

\* the other call goes on
Overtake ==
    /\ fn.name = "SendCoinsWithUtxos"
    /\ fn.frame.pc # "returned"
    /\ fn' = [fn EXCEPT !.running = 3 - @, !.frame = Frame]
    /\ pc' = fn.frame.pc
    /\ kind' = fn.frame.kind
    /\ args' = fn.frame.args
    /\ st' = fn.frame.st
    /\ bump' = fn.frame.bump
    /\ ret' = fn.frame.ret
    /\ issued' = fn.frame.issued
    /\ made' = fn.frame.made
    /\ funded' = fn.frame.funded
    /\ published' = fn.frame.published
    /\ attempts' = fn.frame.attempts
    /\ rels' = fn.frame.rels
    /\ site' = fn.frame.site
    /\ UNCHANGED <<backendVars, LndVerson, cfg, faults, opsDone, depth, tm, log,
                   statVars>>

NextConc ==
    \/ NextSend
    \/ Overtake

ConcSpec == InitConc /\ [][NextConc]_vars

\* ------------------------------------------- the timer and the handlers
\* The request handlers and the periodic timer of the application.  The
\* timer runs in a goroutine of its own: its steps interleave with the
\* handlers'.  The wallet calls of the handlers (SendCoins, GetTransaction,
\* BumpFee) and the calls of the timer to the two nodes (getRawTransaction,
\* getTxOutProof, claimPegin) are calls to the outside, answered there.

\* confirmations needed before the peg-in is claimed
ClaimDepth == 102

\* blocks by which the chain grows in one step
Blocks == {1, 101}

\* ln.ConfirmedWalletBalance
ConfirmedWalletBalance(unsp) == SumAmounts(InWalletOrder(unsp))

\* ln.SendCoins: the transaction the wallet sends.  sweepall: all coins, one
\* output; otherwise the coins sel, the amount and change.
SendCoins(unsp, chg, amount, feeRate, sweepall, sel, fail) ==
    LET ins == InWalletOrder(IF sweepall THEN unsp ELSE sel)
        n == Len(ins)
        sent == SumAmounts(ins) - FeeFor(n, 1, feeRate)
        change == SumAmounts(ins) - amount - FeeFor(n, 2, feeRate)
    IN  IF fail \/ n = 0 \/ ~(Range(ins) \subseteq unsp) THEN [ok |-> FALSE, tx |-> NoTx]
        ELSE IF sweepall
        THEN [ok |-> ~IsDust(sent),
              tx |-> [ins |-> ins, outs |-> <<[addr |-> PeginAddr, value |-> sent]>>]]
        ELSE [ok |-> ~IsDust(change),
              tx |-> [ins |-> ins,
                      outs |-> <<[addr |-> ChangeAddr(chg), value |-> change],
                                 [addr |-> PeginAddr, value |-> amount]>>]]

\* bumpfeeHandler: the first output whose amount is not the peg-in amount
RECURSIVE bumpIndexFrom(_, _, _)
bumpIndexFrom(outs, i, peginAmount) ==
    IF i > Len(outs) THEN 0
    ELSE IF outs[i].value # peginAmount THEN i - 1
    ELSE bumpIndexFrom(outs, i + 1, peginAmount)

\* who has looked up the confirmations of the pending transaction
Checked(l, who) == [l EXCEPT !.checks = @ \cup {who}]

\* config.Config.PeginClaimScript = addr.ClaimScript; PeginAmount = amount;
\* config.Save(), before ln.SendCoins.  getPeginAddress gives a new script
\* to every request.
SavedBeforeSend(c, script, amount) ==
    [c EXCEPT !.PeginClaimScript = script, !.PeginAmount = amount]

\* peginHandler, up to the send: the claim script and the amount are saved
peginHandler_Save ==
    /\ pc = "idle"
    /\ opsDone < MaxOps
    /\ \E amount \in Amounts \cup {ConfirmedWalletBalance(unspent)}, feeRate \in FeeRates :
          /\ amount > 0
          /\ args' = [utxos |-> <<>>, addr |-> PeginAddr, amount |-> amount,
                      feeRate |-> feeRate,
                      subtract |-> amount = ConfirmedWalletBalance(unspent)]
          /\ cfg' = SavedBeforeSend(cfg, opsDone + 1, amount)
    /\ pc' = "pegin_send"
    /\ kind' = "pegin"
    /\ ret' = NoRet
    /\ UNCHANGED <<backendVars, LndVerson, st, bump, ghostVars, appVars>>

\* peginHandler, the send: the id and the fee rate are saved on success
peginHandler_Send ==
    /\ pc = "pegin_send"
    /\ \E sel \in SUBSET unspent, fail \in BOOLEAN :
          LET r == SendCoins(unspent, chgIdx, args.amount, args.feeRate, args.subtract,
                             sel, fail)
          IN  /\ (fail \/ args.subtract) => sel = {}
              /\ IF r.ok
                 THEN /\ unspent' = unspent \ Range(r.tx.ins)
                      /\ walletTxs' = walletTxs \cup {r.tx}
                      /\ chgIdx' = chgIdx + BoolToNat(Len(r.tx.outs) = 2)
                      /\ cfg' = [cfg EXCEPT !.PeginTxId = TxHash(r.tx),
                                            !.PeginFeeRate = args.feeRate]
                      /\ ret' = [ok |-> TRUE, err |-> "", TxId |-> TxHash(r.tx),
                                 RawHex |-> <<>>, AmountSat |-> args.amount]
                      /\ log' = [log EXCEPT !.pegins = @ \cup
                                     {[id |-> TxHash(r.tx), amount |-> args.amount,
                                       script |-> cfg.PeginClaimScript]}]
                 ELSE /\ ret' = Failure("SendCoins")
                      /\ UNCHANGED <<unspent, walletTxs, chgIdx, cfg, log>>
    /\ pc' = "idle"
    /\ opsDone' = opsDone + 1
    /\ UNCHANGED <<locks, version, LndVerson, kind, args, st, bump, issued, made,
                   funded, published, attempts, rels, site, faults, depth, fn, tm,
                   statVars>>

\* the rate of the bump is not saved
SaveRate_Keep(c, fee) == c

\* save the new rate, so the next bump cannot be lower
SaveRate(c, fee) == [c EXCEPT !.PeginFeeRate = fee]

\* bumpfeeHandler: a pending peg-in is required, and an output that is not
\* the peg-in output; the new rate is saved when the bump succeeded
bumpfeeHandler_Bump ==
    /\ pc = "idle"
    /\ opsDone < MaxOps
    /\ cfg.PeginTxId # NoTxId
    /\ \E fee \in FeeRates, txFail \in BOOLEAN, bumpFail \in BOOLEAN :
          LET t == getTransaction(walletTxs, cfg.PeginTxId, txFail)
              index == bumpIndexFrom(t.tx.outs, 1, cfg.PeginAmount)
          IN  /\ args' = [NoArgs EXCEPT !.feeRate = fee]
              /\ txFail => ~bumpFail
              /\ IF ~t.ok
                 THEN /\ ~bumpFail
                      /\ ret' = Failure(t.err)
                      /\ cfg' = cfg
                 ELSE IF t.tx.outs[index + 1].value = cfg.PeginAmount
                 THEN /\ ~bumpFail
                      /\ ret' = Failure("peg-in tx has no change, not possible to bump")
                      /\ cfg' = cfg
                 ELSE IF bumpFail
                 THEN /\ ret' = Failure("BumpFee")
                      /\ cfg' = cfg
                 ELSE /\ ret' = [ok |-> TRUE, err |-> "", TxId |-> cfg.PeginTxId,
                                 RawHex |-> <<>>, AmountSat |-> cfg.PeginAmount]
                      /\ cfg' = SaveRate(cfg, fee)
    /\ kind' = "bump"
    /\ opsDone' = opsDone + 1
    /\ UNCHANGED <<backendVars, LndVerson, pc, st, bump, issued, made, funded,
                   published, attempts, rels, site, faults, appVars>>

bitcoinHandler_Page_Claims ==
    /\ pc = "idle"
    /\ cfg.PeginTxId # NoTxId
    /\ log' = [Checked(log, "bitcoinHandler") EXCEPT !.claims =
                   IF NumConfirmations(depth, cfg.PeginTxId) >= ClaimDepth
                   THEN Append(@, [id |-> cfg.PeginTxId, proof |-> cfg.PeginTxId,
                                   script |-> cfg.PeginClaimScript,
                                   by |-> "bitcoinHandler", outcome |-> "claimed"])
                   ELSE @]
    /\ UNCHANGED <<backendVars, LndVerson, cfg, frameVars, ghostVars, depth, fn, tm, statVars>>

\* bitcoinHandler: the page shows the confirmations of the pending peg-in
bitcoinHandler_Page ==
    /\ pc = "idle"
    /\ cfg.PeginTxId # NoTxId
    /\ log' = Checked(log, "bitcoinHandler")
    /\ UNCHANGED <<backendVars, LndVerson, cfg, frameVars, ghostVars, depth, fn, tm, statVars>>

\* the chain grows: a transaction of the wallet gets more confirmations
Mine ==
    /\ log.mines < MaxMines
    /\ \E t \in walletTxs, b \in Blocks :
          depth' = { e \in depth : e.id # TxHash(t) }
                     \cup {[id |-> TxHash(t), n |-> NumConfirmations(depth, TxHash(t)) + b]}
    /\ log' = [log EXCEPT !.mines = @ + 1]
    /\ UNCHANGED <<backendVars, LndVerson, cfg, frameVars, ghostVars, fn, tm, statVars>>

\* startTimer, a tick: the confirmations of the pending peg-in are looked up
startTimer_Tick ==
    /\ tm.pc = "wait"
    /\ cfg.PeginTxId # NoTxId
    /\ \E fail \in BOOLEAN :
          LET confs == GetTxConfirmations(walletTxs, depth, cfg.PeginTxId, fail).confs
          IN  tm' = IF confs >= ClaimDepth THEN [NoTick EXCEPT !.pc = "raw"] ELSE NoTick
    /\ log' = Checked(log, "startTimer")
    /\ UNCHANGED <<backendVars, LndVerson, cfg, frameVars, ghostVars, depth, fn, statVars>>

\* startTimer: getRawTransaction of the pending peg-in
startTimer_GetRaw ==
    /\ tm.pc = "raw"
    /\ \E fail \in BOOLEAN :
          tm' = IF fail THEN [tm EXCEPT !.pc = "clear"]
                ELSE [tm EXCEPT !.pc = "claim", !.rawTx = cfg.PeginTxId]
    /\ UNCHANGED <<backendVars, LndVerson, cfg, frameVars, ghostVars, depth, fn, log, statVars>>

\* startTimer: getTxOutProof and claimPegin; whatever the outcome, the
\* timer goes on to clear the pending id
startTimer_Claim ==
    /\ tm.pc = "claim"
    /\ \E outcome \in {"claimed", "failed", "timeout reading data from server"} :
          log' = [log EXCEPT !.claims =
                      Append(@, [id |-> tm.rawTx, proof |-> cfg.PeginTxId,
                                 script |-> cfg.PeginClaimScript,
                                 by |-> "startTimer", outcome |-> outcome])]
    /\ tm' = [tm EXCEPT !.pc = "clear", !.attempted = TRUE]
    /\ UNCHANGED <<backendVars, LndVerson, cfg, frameVars, ghostVars, depth, fn, statVars>>

AfterAttempt_KeepsId(c) == c

\* stop trying after first attempt
AfterAttempt(c) == [c EXCEPT !.PeginTxId = NoTxId]

\* startTimer: the pending id is cleared
startTimer_Clear ==
    /\ tm.pc = "clear"
    /\ cfg' = AfterAttempt(cfg)
    /\ log' = [log EXCEPT !.clears = @ \cup
                   {[id |-> cfg.PeginTxId,
                     confs |-> NumConfirmations(depth, cfg.PeginTxId),
                     attempted |-> tm.attempted, claimed |-> tm.rawTx]}]
    /\ tm' = NoTick
    /\ UNCHANGED <<backendVars, LndVerson, frameVars, ghostVars, depth, fn, statVars>>

NextTimer ==
    \/ peginHandler_Save
    \/ peginHandler_Send
    \/ bumpfeeHandler_Bump
    \/ bitcoinHandler_Page
    \/ Mine
    \/ startTimer_Tick
    \/ startTimer_GetRaw
    \/ startTimer_Claim
    \/ startTimer_Clear

TimerSpec == Init /\ [][NextTimer]_vars

\* ------------------------------------------------ forwarding statistics
\* NumMaxEvents of the request: 50000 events a page, scaled down
NumMaxEvents == 2
\* time.Now().AddDate(0, -6, 0): the window of the first fetch, in seconds,
\* scaled down
SixMonths == 2

\* the backend's answer to ForwardingHistory: of its events from the second
\* StartTime on, in time order, those after the first IndexOffset ones, at
\* most NumMaxEvents of them; LastOffsetIndex counts the events passed
ForwardingHistory(h, StartTime, IndexOffset) ==
    LET from == SelectSeq(h.events, LAMBDA e : e.sec >= StartTime)
        rest == SubSeq(from, IndexOffset + 1, Len(from))
        page == SubSeq(rest, 1, IF Len(rest) < NumMaxEvents THEN Len(rest)
                                                         ELSE NumMaxEvents)
    IN  [ForwardingEvents |-> page, LastOffsetIndex |-> IndexOffset + Len(page)]

\* start of the fetch: six months back, or one second after the last
\* logged event
ResumeFrom(events, now) ==
    IF Len(events) > 0 THEN events[Len(events)].sec + 1 ELSE now - SixMonths

\* the backend forwards a payment
Forward ==
    /\ Len(history.events) < MaxEvents
    /\ history' = [history EXCEPT !.events =
                      Append(@, [id |-> Len(@) + 1, sec |-> history.now])]
    /\ UNCHANGED <<backendVars, LndVerson, cfg, frameVars, ghostVars, depth, fn, tm,
                   log, forwardingEvents>>

\* a second passes
Second ==
    /\ history.now < MaxTicks
    /\ history' = [history EXCEPT !.now = @ + 1]
    /\ UNCHANGED <<backendVars, LndVerson, cfg, frameVars, ghostVars, depth, fn, tm,
                   log, forwardingEvents>>

\* FetchForwardingStats up to its first request; no client: return
FetchForwardingStats_Start ==
    /\ fn.name = "none" \/ fn.done
    /\ \E noClient \in FaultFlags :
          /\ faults' = faults + (IF noClient THEN 1 ELSE 0)
          /\ fn' = [name |-> "FetchForwardingStats", done |-> noClient, ok |-> FALSE,
                    start |-> ResumeFrom(forwardingEvents, history.now),
                    offset |-> 0, seen |-> <<>>, now |-> history.now]
    /\ UNCHANGED <<backendVars, LndVerson, cfg, frameVars, issued, made, funded,
                   published, attempts, rels, site, opsDone, depth, tm, log,
                   statVars>>

\* one turn of the loop: a request, its answer appended to the log, and
\* either the end of the fetch or the offset of the next request
FetchForwardingStats_Page ==
    /\ fn.name = "FetchForwardingStats"
    /\ ~fn.done
    /\ \E err \in FaultFlags :
          LET res == ForwardingHistory(history, fn.start, fn.offset) IN
          /\ faults' = faults + (IF err THEN 1 ELSE 0)
          /\ IF err
                THEN /\ fn' = [fn EXCEPT !.done = TRUE]
                     /\ UNCHANGED forwardingEvents
                ELSE /\ forwardingEvents' = forwardingEvents \o res.ForwardingEvents
                     /\ fn' = IF Len(res.ForwardingEvents) < NumMaxEvents
                                THEN [fn EXCEPT !.done = TRUE, !.ok = TRUE,
                                                !.seen = history.events,
                                                !.now = history.now]
                                ELSE [fn EXCEPT !.offset = res.LastOffsetIndex + 1]
    /\ UNCHANGED <<backendVars, LndVerson, cfg, frameVars, issued, made, funded,
                   published, attempts, rels, site, opsDone, depth, tm, log,
                   history>>

NextStats ==
    \/ Forward
    \/ Second
    \/ FetchForwardingStats_Start
    \/ FetchForwardingStats_Page

StatSpec == Init /\ [][NextStats]_vars

\* --------------------------------------------------------- retryMiddleware
\* for i := 0; i < 3; i++
Retries_Four == 2 + 2
Retries == 3

\* what a Write to the underlying ResponseWriter may answer
WriteResults == {"ok", "broken pipe", "other error"}
\* r.TLS: nil, a connection state without peer certificates, or one with
TLSStates == {"nil", "no certificate", "certificate"}

\* if config.Config.SecureConnection && r.TLS != nil
\*     { if len(r.TLS.PeerCertificates) == 0 { http.Error(403); return } }
Forbidden(SecureConnection, TLS) ==
    SecureConnection /\ TLS # "nil" /\ TLS = "no certificate"

\* a request reaches the middleware
retryMiddleware_Request ==
    /\ fn.name = "none" \/ fn.done
    /\ \E SecureConnection \in BOOLEAN, TLS \in TLSStates :
          fn' = [name |-> "retryMiddleware", done |-> FALSE, pc |-> "check",
                 SecureConnection |-> SecureConnection, TLS |-> TLS, i |-> 0,
                 brokenPipe |-> FALSE, writes |-> 0, served |-> <<>>, status |-> 0]
    /\ UNCHANGED <<backendVars, LndVerson, cfg, frameVars, ghostVars, depth, tm, log,
                   statVars>>

\* the certificate check
retryMiddleware_Check ==
    /\ fn.name = "retryMiddleware" /\ fn.pc = "check"
    /\ fn' = IF Forbidden(fn.SecureConnection, fn.TLS)
              THEN [fn EXCEPT !.status = 403, !.pc = "returned", !.done = TRUE]
              ELSE [fn EXCEPT !.pc = "loop"]
    /\ UNCHANGED <<backendVars, LndVerson, cfg, frameVars, ghostVars, depth, tm, log,
                   statVars>>

\* the loop condition, and next.ServeHTTP on a fresh responseWriter
retryMiddleware_Serve ==
    /\ fn.name = "retryMiddleware" /\ fn.pc = "loop"
    /\ fn' = IF fn.i < Retries
              THEN [fn EXCEPT !.pc = "handler", !.brokenPipe = FALSE, !.writes = 0]
              ELSE [fn EXCEPT !.pc = "returned", !.done = TRUE]
    /\ UNCHANGED <<backendVars, LndVerson, cfg, frameVars, ghostVars, depth, tm, log,
                   statVars>>

\* responseWriter.Write: a broken pipe is remembered, another error is not
Write ==
    /\ fn.name = "retryMiddleware" /\ fn.pc = "handler"
    /\ fn.writes < MaxWrites
    /\ \E err \in WriteResults :
          fn' = [fn EXCEPT !.writes = @ + 1,
                           !.brokenPipe = @ \/ err = "broken pipe",
                           !.status = IF @ = 0 /\ err = "ok" THEN 200 ELSE @]
    /\ UNCHANGED <<backendVars, LndVerson, cfg, frameVars, ghostVars, depth, tm, log,
                   statVars>>

\* the handler returns: the middleware returns, or sleeps and goes round
retryMiddleware_After ==
    /\ fn.name = "retryMiddleware" /\ fn.pc = "handler"
    /\ fn' = IF ~fn.brokenPipe
              THEN [fn EXCEPT !.served = Append(@, fn.brokenPipe),
                              !.pc = "returned", !.done = TRUE]
              ELSE [fn EXCEPT !.served = Append(@, fn.brokenPipe),
                              !.pc = "loop", !.i = @ + 1]
    /\ UNCHANGED <<backendVars, LndVerson, cfg, frameVars, ghostVars, depth, tm, log,
                   statVars>>

NextRetry ==
    \/ retryMiddleware_Request
    \/ retryMiddleware_Check
    \/ retryMiddleware_Serve
    \/ Write
    \/ retryMiddleware_After

RetrySpec == Init /\ [][NextRetry]_vars

\* ------------------------------------------------------------ the claims
\* a SendCoinsWithUtxos call has returned its SentResult
SendSucceeded == pc = "returned" /\ site = "sent" /\ ret.ok

\* a call has returned an error
CallFailed == pc = "returned" /\ ~ret.ok

\* every output the attempt reserved is free again
AllMadeReleased == \A o \in made : locks[o] = NoLock

\* C1: for every successful SendCoinsWithUtxos call the returned TxId is the
\* hash of the locally deserialized transaction whose bytes were passed to
\* PublishTransaction, and RawHex is the hex of those same bytes.
C1_TxIdOfBroadcastBytes ==
    SendSucceeded =>
        /\ "PublishTransaction" \in issued
        /\ Deserialize(published).ok
        /\ ret.TxId = SerializeNoWitness(Deserialize(published))
        /\ ret.RawHex = HexEncode(published)

C1_Witness == SendSucceeded /\ published # <<>> /\ Deserialize(published).wit = 2

\* C2: every error return of SendCoinsWithUtxos after a funding call of the
\* attempt has succeeded is preceded by a release of every outpoint the
\* attempt reserved.
C2_ErrorReturnReleasesAll ==
    (CallFailed /\ funded) => AllMadeReleased

\* C3: when PublishTransaction fails, all locks held for the funded
\* transaction are released, the inputs the backend's coin selector chose
\* itself included, and an error is returned without a SentResult.
C3_PublishFailureReleasesAll ==
    (pc = "returned" /\ site = "PublishTransaction") =>
        /\ ~ret.ok
        /\ ret.TxId = NoTxId
        /\ AllMadeReleased

\* C4: in sweep-all mode, on any failure after an outpoint has been leased
\* under the explicit token, every lease made so far under that token is
\* released before fundPsbtSpendAll returns the error.
C4_SpendAllFailureReleasesLeases ==
    (CallFailed /\ site = "fundPsbtSpendAll") =>
        \A o \in made : locks[o] # myLockId

\* C5: the haircuts of successive re-funding attempts are 0, 5, 10, ...,
\* never exceed 2000, and after at most 401 attempts the loop is left.
C5_HaircutSequence ==
    /\ attempts <= 401
    /\ pc = "loop" => (st.haircut = 5 * attempts /\ st.haircut <= 2000)
    /\ attempts = 401 => pc \in {"finalize", "publish", "returned"}

C5_Witness == pc = "returned" /\ site = "loop exhausted" /\ attempts = 401

\* C6: if no re-funding attempt succeeds for any haircut in 0..2000, the
\* call returns the distinct FeeCorrectionExhausted error, never calls
\* finalize or publish, and leaves no outpoint of the attempt locked.
C6_ExhaustionIsDistinctError ==
    (pc = "returned" /\ site = "loop exhausted") =>
        /\ ret.err = "FeeCorrectionExhausted"
        /\ ret.err # "FundPsbt"
        /\ issued \cap {"FinalizePsbt", "PublishTransaction"} = {}
        /\ AllMadeReleased

\* the outpoints named by a list of well-formed outpoint strings
Named(utxos) == { OutPointOf(utxos[i]) : i \in DOMAIN utxos }

WellFormed(utxos) == \A i \in DOMAIN utxos : Atoi(utxos[i].idx).ok

FeePaid(tx) == SumAmounts(tx.ins) - SumValues(tx.outs)

\* the value held by the outpoints the caller selected
SelectedSum == SumAmounts(InWalletOrder(Named(args.utxos)))

RbfSucceeded == pc = "returned" /\ kind = "bump" /\ site = "sent" /\ ret.ok

BackendCapable ==
    /\ ParseFloat(version.major).ok
    /\ ParseFloat(version.minor).ok
    /\ ParseFloat(version.major).v * 100 + ParseFloat(version.minor).v >= 18

\* C10: on a backend that is not RBF capable (and whenever the CPFP path is
\* taken) BumpPeginFee issues no RemoveTransaction, release, lease, funding
\* or publish call and leaves the pending id and amount as they were; when it
\* succeeds it returns that id and that amount.
C10_CpfpKeepsPending ==
    (/\ pc = "returned"
     /\ kind = "bump"
     /\ (~BackendCapable \/ site \in {"cpfp", "doCPFP"}))
    => /\ issued \cap {"RemoveTransaction", "ReleaseOutput", "LeaseOutput",
                       "FundPsbt", "FinalizePsbt", "PublishTransaction"} = {}
       /\ cfg.PeginTxId = bump.oldTxId
       /\ cfg.PeginAmount = bump.oldAmount
       /\ TxsWithId(walletTxs, bump.oldTxId) # {}
       /\ ret.ok => /\ ret.TxId = bump.oldTxId
                    /\ ret.AmountSat = bump.oldAmount
                    /\ ret.RawHex = <<>>

C10_Witness ==
    /\ pc = "returned"
    /\ kind = "bump"
    /\ ~BackendCapable
    /\ site = "cpfp"
    /\ ret.ok
    /\ "BumpFee" \in issued

\* the pending transaction has an output that does not pay the peg-in address
HasChangeOutput(outputs) ==
    \E i \in DOMAIN outputs : outputs[i].addr # cfg.PeginAddress

\* C11: doCPFP sends a bump request only against an existing output of the
\* pending transaction whose address is not the peg-in address; for a
\* transaction without such an output it fails with the no-change-output
\* error and sends no BumpFee request.
C11_BumpOnlyChangeOutput ==
    (fn.name = "doCPFP" /\ fn.done) =>
        /\ fn.called =>
              /\ fn.outputIndex + 1 \in DOMAIN fn.outputs
              /\ fn.outputs[fn.outputIndex + 1].addr # cfg.PeginAddress
        /\ ~HasChangeOutput(fn.outputs) =>
              /\ ~fn.called
              /\ "BumpFee" \notin issued
              /\ fn.err = "no change output"

\* C12: a bump request whose fee rate is not above the recorded peg-in fee
\* rate is rejected by the handler before BumpPeginFee or the backend is
\* called: every bump under way has a rate above the recorded one.
C12_BumpRateAboveRecorded ==
    (kind = "bump" /\ pc # "idle") => bump.feeRate > cfg.PeginFeeRate

\* a GetTxConfirmations call has returned
LookedUp == fn.name = "GetTxConfirmations" /\ fn.done

\* the entries of the backend's history with the id that was looked up
InHistory == TxsWithId(walletTxs, fn.txid)

C14_HasChangeOutput ==
    LookedUp =>
        (fn.canBump <=> /\ ~fn.failed
                        /\ \E t \in InHistory : Len(t.outs) > 1)

\* a transaction with two outputs, and one with a single output
C14_Witness ==
    /\ LookedUp
    /\ fn.canBump
    /\ \E t \in walletTxs : Len(t.outs) = 1

\* C15: the timer clears the pending id only when its confirmations have
\* reached the threshold and a claim was attempted for that id.
C15_ClearedOnlyAfterClaim ==
    \A e \in log.clears :
        /\ e.confs >= ClaimDepth
        /\ e.attempted
        /\ e.claimed = e.id

\* C16: for each pending peg-in transaction at most one claim is ever
\* attempted, whatever its outcome, and once the attempt is over that
\* transaction is no longer the pending one.
C16_SingleShotClaim ==
    /\ \A i, j \in DOMAIN log.claims : log.claims[i].id = log.claims[j].id => i = j
    /\ \A i \in DOMAIN log.claims : tm.pc = "wait" => cfg.PeginTxId # log.claims[i].id

\* a claim ran into the timeout, the id was cleared, and the next peg-in
\* is pending
C16_Witness ==
    /\ \E i \in DOMAIN log.claims :
          /\ log.claims[i].outcome = "timeout reading data from server"
          /\ \E e \in log.clears : e.id = log.claims[i].id /\ e.attempted
    /\ cfg.PeginTxId # NoTxId
    /\ tm.pc = "wait"
    /\ "bitcoinHandler" \notin log.checks
    /\ Len(log.claims) = 1

\* C17, as stated: only the timer looks up the confirmations of the pending
\* peg-in and only the timer attempts the claim.
C17_AsStated ==
    /\ log.checks \subseteq {"startTimer"}
    /\ \A i \in DOMAIN log.claims : log.claims[i].by = "startTimer"

\* C17, amended: the claim is attempted and the pending id is cleared only
\* by the timer; the confirmations are looked up by the timer and by the
\* bitcoin page, and by no other handler.
C17_ClaimOnlyByTimer ==
    /\ [](/\ log.checks \subseteq {"startTimer", "bitcoinHandler"}
          /\ \A i \in DOMAIN log.claims : log.claims[i].by = "startTimer")
    /\ [][ /\ log'.claims # log.claims => (tm.pc = "claim" /\ tm'.pc = "clear")
           /\ (cfg.PeginTxId # NoTxId /\ cfg'.PeginTxId = NoTxId)
                  => (tm.pc = "clear" /\ tm'.pc = "wait") ]_vars

\* the page has shown the confirmations, both handlers have run, and the
\* timer has claimed and cleared
C17_Witness ==
    /\ log.checks = {"startTimer", "bitcoinHandler"}
    /\ Len(log.claims) = 1
    /\ log.clears # {}
    /\ kind = "bump"
    /\ opsDone = 2

\* the funding, finalizing and publishing calls
FundingCalls == {"FundPsbt", "FinalizePsbt", "PublishTransaction"}

\* BumpPeginFee has just removed the pending transaction and released its inputs
JustRemoved == kind = "bump" /\ pc = "send" /\ site = "RemoveTransaction"

\* C18: on the RBF path the pending transaction is removed first, then a
\* release is attempted for every former input under the implicit token and
\* for every former input under the explicit token, also when a release
\* call fails, and only then the transaction is funded again; nothing is
\* funded unless the removal succeeded.
C18_RbfOrdering ==
    /\ (kind = "bump" /\ issued \cap FundingCalls # {})
          => {"RemoveTransaction", "ReleaseOutput"} \subseteq issued
    /\ (kind = "bump" /\ pc = "returned" /\ site = "RemoveTransaction")
          => issued \cap FundingCalls = {}
    /\ JustRemoved =>
          /\ issued \cap FundingCalls = {}
          /\ TxsWithId(walletTxs, cfg.PeginTxId) = {}
          /\ Len(rels) = 2
          /\ rels[1].id = internalLockId
          /\ rels[2].id = myLockId
          /\ \A k \in 1..2 :
                /\ Len(rels[k].utxos) = Len(bump.tx.ins)
                /\ \A i \in DOMAIN bump.tx.ins :
                      rels[k].utxos[i] = OutpointString(bump.tx.ins[i])
                /\ rels[k].calls = Len(bump.tx.ins)

\* BumpPeginFee is on the replace-by-fee path
OnRbfPath == kind = "bump" /\ (pc = "bump_remove" \/ "RemoveTransaction" \in issued)

\* BumpPeginFee is on the CPFP path
OnCpfpPath == kind = "bump" /\ (pc = "bump_cpfp" \/ site \in {"cpfp", "doCPFP"})

\* C19: BumpPeginFee takes the replace-by-fee path only when the version the
\* backend reports is 0.18 or later and only the CPFP path when it is
\* earlier; on the replace-by-fee path the fee is taken from the amount
\* exactly when the pending transaction has a single output.
C19_PathByVersion ==
    /\ OnRbfPath => (BackendCapable /\ ~OnCpfpPath)
    /\ (kind = "bump" /\ ~BackendCapable)
          => /\ ~OnRbfPath
             /\ pc \in {"bump", "bump_cpfp", "returned"}
             /\ (pc = "returned" /\ site # "getTransaction") => OnCpfpPath
    /\ (kind = "bump" /\ args # NoArgs)
          => /\ OnRbfPath
             /\ args.subtract <=> (Len(bump.tx.outs) = 1)
             /\ args.feeRate = bump.feeRate
    /\ (OnRbfPath /\ issued \cap FundingCalls # {}) => args # NoArgs

\* the replacement of a pending transaction with a single output is funded
\* with the fee taken from the amount
C19_Witness ==
    /\ OnRbfPath
    /\ BackendCapable
    /\ "FundPsbt" \in issued
    /\ Len(bump.tx.outs) = 1
    /\ args.subtract

\* C20: the persisted fee rate is the rate of the most recent successful
\* send or bump: a request that succeeds stores its rate, a request that
\* fails leaves the persisted rate and the pending id as they were, and
\* nothing else changes the persisted rate.
C20_RateOfLastSuccess ==
    [][ IF opsDone' # opsDone
        THEN IF ret'.ok
             THEN cfg'.PeginFeeRate = args'.feeRate
             ELSE /\ cfg'.PeginFeeRate = cfg.PeginFeeRate
                  /\ cfg'.PeginTxId = cfg.PeginTxId
        ELSE cfg'.PeginFeeRate = cfg.PeginFeeRate ]_vars

\* a bump at another rate has failed after a successful send
C20_Witness ==
    /\ pc = "idle"
    /\ opsDone = 2
    /\ kind = "bump"
    /\ ~ret.ok
    /\ ret.err = "BumpFee"
    /\ cfg.PeginTxId # NoTxId
    /\ cfg.PeginFeeRate > 0
    /\ cfg.PeginFeeRate # args.feeRate

\* a call of fundPsbtSpendAll, on a list of outpoint strings that all
\* parse, that got as far as its FundPsbt call
TemplateBuilt ==
    /\ fn.name = "fundPsbtSpendAll"
    /\ fn.done
    /\ fn.built
    /\ \A i \in DOMAIN fn.utxos : Atoi(fn.utxos[i].idx).ok

\* C21: the transaction fundPsbtSpendAll hands to FundPsbt has as inputs the
\* outpoints the caller named, each exactly once, also when the list has a
\* duplicate or names an outpoint the backend does not list as unspent; each
\* is leased under the explicit token by then; it has one output, of 1
\* satoshi to the destination, named as change output 0.
C21_TemplateInputsAsNamed ==
    TemplateBuilt =>
        /\ \A i \in DOMAIN fn.utxos :
              Cardinality({ k \in DOMAIN fn.tx.ins :
                              fn.tx.ins[k] = OutPointOf(fn.utxos[i]) }) = 1
        /\ \A k \in DOMAIN fn.tx.ins :
              /\ \E i \in DOMAIN fn.utxos : fn.tx.ins[k] = OutPointOf(fn.utxos[i])
              /\ fn.leased[fn.tx.ins[k]] = myLockId
        /\ fn.tx.outs = <<[addr |-> fn.address, value |-> 1]>>
        /\ fn.ExistingOutputIndex = 0

\* an iteration of the fee-subtraction loop has just made its funding call
LoopFunded == site \in {"loop funded", "loop retry", "loop exhausted"}

\* the haircut of that iteration
LoopHaircut == IF site = "loop funded" THEN st.haircut ELSE st.haircut - HaircutStep

\* C22: every re-funding attempt of the fee-subtraction loop asks for one
\* output, to the destination, of max(0, requested amount - extracted fee -
\* haircut of the attempt): never negative, never above the requested amount.
C22_LoopAmount ==
    LoopFunded =>
        /\ Len(st.outputs) = 1
        /\ st.outputs[1].addr = args.addr
        /\ st.outputs[1].value = Max(0, args.amount - st.fee - LoopHaircut)
        /\ st.outputs[1].value >= 0
        /\ st.outputs[1].value <= args.amount

\* an attempt whose amount was used up by the fee and the haircut
C22_Witness ==
    /\ LoopFunded
    /\ args.amount > 0
    /\ args.amount - st.fee - LoopHaircut < 0
    /\ st.outputs[1].value = 0

\* C23: in the fee-subtraction loop every re-funding call comes right after
\* a release of all the outpoints of the attempt under the attempt's token,
\* and the loop ends with the first re-funding that succeeds: nothing is
\* released or funded between it and FinalizePsbt.
C23_ReleaseBeforeRefund ==
    /\ LoopFunded =>
          /\ Len(rels) >= 1
          /\ rels[1].id = st.lockId
          /\ rels[1].utxos = args.utxos
          /\ ~rels[1].err
          /\ rels[1].calls = Len(args.utxos)
          /\ \A o \in made : rels[1].after[o] = NoLock
    /\ site = "loop funded" =>
          /\ pc = "finalize"
          /\ Len(rels) = 1
          /\ \A o \in Range(st.psbt.ins) : locks[o] = st.lockId
    /\ site = "loop release" => (pc = "returned" /\ rels[1].err /\ Len(rels) = 1)

\* a re-funding that succeeded after earlier ones had failed
C23_Witness ==
    /\ site = "loop funded"
    /\ attempts > 1
    /\ pc = "finalize"
    /\ rels[1].calls = Len(args.utxos)

\* the first funding call of a fee-subtracting send has just been made
ProbeMade == args.subtract /\ site = "fundPsbt" /\ "FundPsbt" \in issued

\* C24, as stated: the first funding of a fee-subtracting send asks for the
\* destination output with the requested amount.
C24_AsStated ==
    ProbeMade => st.outputs = <<[addr |-> args.addr, value |-> args.amount]>>

\* C24, amended: the first funding of a fee-subtracting send asks for no
\* output at all and what the wallet funds has only its change output; the
\* requested amount enters with the first re-funding, less the fee.
C24_ProbeWithoutOutputs ==
    /\ ProbeMade =>
          /\ st.outputs = <<>>
          /\ pc = "getfee" =>
                /\ Len(st.psbt.outs) = 1
                /\ st.psbt.outs[1].addr.kind = "change"
                /\ Range(st.psbt.ins) = { OutPointOf(args.utxos[i]) : i \in DOMAIN args.utxos }
    /\ (LoopFunded /\ attempts = 1) =>
          st.outputs = <<[addr |-> args.addr, value |-> Max(0, args.amount - st.fee)]>>

\* the probe of a fee-subtracting send has been funded
C24_Witness ==
    /\ ProbeMade
    /\ pc = "getfee"
    /\ st.outputs = <<>>
    /\ args.amount > 0

\* the capability check of the running call has answered yes
AnsweredCapable == LndVerson >= 18

\* the token of a sweep-all attempt on a capable backend is the explicit
\* one, of every other attempt the implicit one
TokenOfAttempt ==
    IF args.subtract /\ AnsweredCapable THEN myLockId ELSE internalLockId

\* SendCoinsWithUtxos has made a backend call of its own
SendUnderWay ==
    /\ pc \in {"getfee", "loop", "finalize", "publish", "returned"}
    /\ issued \cap {"ListUnspent", "LeaseOutput", "FundPsbt"} # {}
    /\ site \notin {"RemoveTransaction", "CanRBF", "getTransaction", "cpfp", "doCPFP"}

\* the outpoints named by a list of outpoint strings
NamedBy(utxos) == { OutPointOf(utxos[i]) : i \in DOMAIN utxos }

\* C25: one SendCoinsWithUtxos call uses one token, the explicit one when it
\* is a sweep-all on a backend found capable and the implicit one otherwise:
\* its LeaseOutput calls and its releases are under that token, and no
\* release is under another token than the one the outpoint was reserved
\* under by the call.
C25_OneTokenPerCall ==
    SendUnderWay =>
        /\ st.lockId = TokenOfAttempt
        /\ "LeaseOutput" \in issued => TokenOfAttempt = myLockId
        /\ \A i \in DOMAIN rels :
              /\ rels[i].id = TokenOfAttempt
              /\ \A o \in made \cap NamedBy(rels[i].utxos) :
                    rels[i].before[o] \in {NoLock, rels[i].id}
        /\ \A o \in made \cap NamedBy(args.utxos) : locks[o] \in {NoLock, TokenOfAttempt}

\* a sweep-all on a capable backend that leased its outpoints and released
\* them again when FinalizePsbt failed
C25_Witness ==
    /\ SendUnderWay
    /\ pc = "returned"
    /\ site = "FinalizePsbt"
    /\ TokenOfAttempt = myLockId
    /\ "LeaseOutput" \in issued
    /\ Len(rels) = 1
    /\ rels[1].calls = Len(args.utxos)
    /\ \E o \in made : rels[1].before[o] = myLockId /\ rels[1].after[o] = NoLock

\* SendCoinsWithUtxos has returned its result
SentOk == pc = "returned" /\ ret.ok /\ site = "sent"

\* C26: on the success path of SendCoinsWithUtxos nothing is released after
\* the funding that succeeded: while the call is at FinalizePsbt and at
\* PublishTransaction the inputs of the funded transaction are reserved, and
\* at the successful return the inputs of the broadcast transaction still
\* are, no release having been issued by the last two steps.
C26_ReservedOnSuccess ==
    /\ (funded /\ pc \in {"finalize", "publish"}) =>
          \A o \in Range(st.psbt.ins) : locks[o] \in LockIds
    /\ (funded /\ pc = "publish") => rels = <<>>
    /\ SentOk =>
          /\ rels = <<>>
          /\ "PublishTransaction" \in issued
          /\ st.msgTx.ins = st.psbt.ins
          /\ \A o \in Range(st.msgTx.ins) : locks[o] \in LockIds

\* a transaction with two inputs was broadcast and both are still reserved
C26_Witness ==
    /\ SentOk
    /\ Len(st.msgTx.ins) = 2
    /\ \A o \in Range(st.msgTx.ins) : locks[o] = st.lockId
    /\ TxRecord(st.msgTx) \in walletTxs

Occurrences(events, e) == Cardinality({i \in 1..Len(events) : events[i] = e})

\* the fetch that just ended without error
FetchedOk == fn.name = "FetchForwardingStats" /\ fn.done /\ fn.ok

\* the events the backend held, when that fetch ended, from the last six
\* months
InWindow == {i \in 1..Len(fn.seen) : fn.seen[i].sec >= fn.now - SixMonths}

\* C28: the log of forwarding events only grows at its end, and after a
\* fetch that ended without error every event of the backend from the last
\* six months is in the log exactly once.
C28_LogCompleteAppendOnly ==
    /\ [](FetchedOk =>
            \A i \in InWindow : Occurrences(forwardingEvents, fn.seen[i]) = 1)
    /\ [][ /\ Len(forwardingEvents') >= Len(forwardingEvents)
           /\ SubSeq(forwardingEvents', 1, Len(forwardingEvents)) = forwardingEvents
         ]_vars

\* C29: a SendCoinsWithUtxos call that is to subtract the fee and names no
\* outpoint returns an error and has issued no backend call: nothing is
\* leased, funded, finalized or published, and the wallet is as it was.
C29_NoUtxosNoCalls ==
    (pc # "send" /\ args.subtract /\ args.utxos = <<>>) =>
        /\ pc = "returned"
        /\ ~ret.ok
        /\ issued = {}
        /\ made = {}
        /\ ~funded
        /\ published = <<>>
        /\ walletTxs = {}
        /\ \A o \in Outpoints : locks[o] = NoLock

\* the call has returned the error about the missing outpoint
C29_Witness ==
    /\ pc = "returned"
    /\ args.subtract
    /\ args.utxos = <<>>
    /\ site = "no utxos"
    /\ ret.err = "validation"

\* the backend calls BumpPeginFee makes only after the removal
AfterRemoval == {"ReleaseOutput", "ListUnspent", "LeaseOutput", "FundPsbt",
                 "FinalizePsbt", "PublishTransaction", "BumpFee"}

\* BumpPeginFee returns because the pending transaction is not in the
\* backend's list or because its removal failed or was refused
BumpGivesUp ==
    /\ kind = "bump"
    /\ pc \in {"bump", "bump_remove"}
    /\ pc' = "returned"
    /\ ret'.err = "txid not found" \/ site' = "RemoveTransaction"

\* C30: when the pending transaction is not in the backend's list, or its
\* removal fails or is answered with another status, BumpPeginFee returns
\* an error, has issued no release, funding, publish or bump call, and
\* leaves the wallet and the configuration as they were.
C30_GivesUpUntouched ==
    [][ /\ BumpGivesUp =>
              /\ ~ret'.ok
              /\ issued' \cap AfterRemoval = {}
              /\ made' = {} /\ ~funded' /\ published' = <<>>
              /\ UNCHANGED <<locks, unspent, walletTxs, chgIdx, cfg>>
        /\ (pc = "bump" /\ pc' # "bump" /\ TxsWithId(walletTxs, cfg.PeginTxId) = {}) =>
              (pc' = "returned" /\ ~ret'.ok)
        /\ (pc = "bump_remove" /\ pc' # "bump_remove" /\ bump.tx \in walletTxs') =>
              (pc' = "returned" /\ ~ret'.ok) ]_vars

\* the removal was refused while an input of the pending transaction is
\* still reserved
C30_Witness ==
    /\ kind = "bump"
    /\ pc = "returned"
    /\ ret.err = "cannot remove the previous transaction"
    /\ "RemoveTransaction" \in issued
    /\ \E i \in DOMAIN bump.tx.ins :
          bump.tx.ins[i] \in Outpoints /\ locks[bump.tx.ins[i]] # NoLock

\* the middleware has answered the request
Answered == fn.name = "retryMiddleware" /\ fn.pc = "returned"

\* the invocations of the wrapped handler so far, the running one included
Invocations == Len(fn.served) + (IF fn.pc = "handler" THEN 1 ELSE 0)

\* every invocation but the last hit a broken pipe, and there are at most
\* three; an invocation that hit none is the last
RetriedOnlyOnBrokenPipe ==
    /\ Invocations <= 3
    /\ \A k \in 1..Len(fn.served) :
          /\ k < Invocations => fn.served[k]
          /\ ~fn.served[k] => (k = Invocations /\ fn.pc = "returned")

\* C31 as stated: the handler is invoked at least once and at most three
\* times for every request, and again only after a broken pipe.
C31_AsStated ==
    fn.name = "retryMiddleware" =>
        /\ RetriedOnlyOnBrokenPipe
        /\ Answered => Invocations >= 1

\* C31: the handler is invoked at most three times for a request, again
\* only after an invocation that hit a broken pipe, and an invocation that
\* hit none is the last; it is invoked at least once for every request the
\* certificate check lets through.
C31_BoundedRetries ==
    fn.name = "retryMiddleware" =>
        /\ RetriedOnlyOnBrokenPipe
        /\ (Answered /\ fn.status # 403) => Invocations >= 1
        /\ (Answered /\ fn.status = 403) => Invocations = 0

\* the third invocation hit a broken pipe as well and the middleware
\* returned
C31_Witness ==
    /\ Answered
    /\ fn.served = <<TRUE, TRUE, TRUE>>

\* C39: with the secure connection enabled, a request without a client
\* certificate, with or without TLS state, never reaches the wrapped
\* handler and is answered with 403.
C39_NoCertificateNoHandler ==
    (fn.name = "retryMiddleware" /\ fn.SecureConnection /\ fn.TLS # "certificate") =>
        /\ Invocations = 0
        /\ Answered => fn.status = 403

\* C32: a BumpPeginFee call that returns an error after it has asked for the
\* removal leaves the pending transaction in the backend's view, so the
\* pending id on record always names a transaction the backend knows.
C32_BumpAllOrNothing ==
    /\ (kind = "bump" /\ pc = "returned" /\ ~ret.ok /\ "RemoveTransaction" \in issued) =>
          TxsWithId(walletTxs, bump.oldTxId) # {}
    /\ (pc = "idle" /\ cfg.PeginTxId # NoTxId) =>
          TxsWithId(walletTxs, cfg.PeginTxId) # {}

\* the inputs of the transactions in the backend's view that carry the id
\* the bump returned
ReplacementInputs ==
    UNION {Range(t.ins) : t \in TxsWithId(walletTxs, ret.TxId)}

\* C33: the transaction a replace-by-fee bump publishes spends at least one
\* input of the transaction it replaces and no outpoint that was not an
\* input of it.
C33_ReplacementConflicts ==
    (pc = "returned" /\ kind = "bump" /\ site = "sent" /\ ret.ok) =>
        /\ ReplacementInputs # {}
        /\ ReplacementInputs \subseteq Range(bump.tx.ins)

\* a claim has been attempted for the transaction
ClaimAttempted(l, id) == \E i \in DOMAIN l.claims : l.claims[i].id = id

\* C34: a peg-in recorded as pending stays the pending id until a claim has
\* been attempted for it: no step replaces or clears the id before, a new
\* peg-in request included.
C34_PendingUntilClaimed ==
    [][ (cfg.PeginTxId # NoTxId /\ cfg'.PeginTxId # cfg.PeginTxId) =>
            ClaimAttempted(log', cfg.PeginTxId) ]_vars

\* the claim script and the amount are the ones of the peg-in request that
\* sent the transaction
OfSamePegin(id, script, amount) ==
    \E p \in log.pegins : p.id = id /\ p.script = script /\ p.amount = amount

\* C35: between requests, the claim script and the amount on record are
\* those of the request that sent the pending transaction, and every claim
\* is attempted with the script of the transaction it claims.
C35_ScriptOfPending ==
    /\ (pc = "idle" /\ cfg.PeginTxId # NoTxId) =>
          OfSamePegin(cfg.PeginTxId, cfg.PeginClaimScript, cfg.PeginAmount)
    /\ \A i \in DOMAIN log.claims :
          \E p \in log.pegins : p.id = log.claims[i].id /\ p.script = log.claims[i].script

\* C36: the timer, having attempted a claim, erases the pending id only if
\* it is still the id it attempted the claim for: an id a request wrote
\* while the claim was under way stays.
C36_ClearsOnlyClaimedId ==
    [][ (tm.pc = "clear" /\ tm.attempted /\ tm'.pc = "wait"
         /\ cfg.PeginTxId # NoTxId /\ cfg'.PeginTxId = NoTxId) =>
            cfg.PeginTxId = tm.rawTx ]_vars

\* the outpoints the other call has reserved for the transaction it has
\* funded and not yet published
HeldByOther ==
    IF fn.name = "SendCoinsWithUtxos" /\ fn.frame.pc \in {"finalize", "publish"}
    THEN Range(fn.frame.st.psbt.ins) \cap Outpoints
    ELSE {}

\* both calls have published a transaction that spends the outpoint
BothPublished(o) ==
    /\ fn.name = "SendCoinsWithUtxos"
    /\ pc = "returned" /\ ret.ok /\ o \in Range(st.msgTx.ins)
    /\ fn.frame.pc = "returned" /\ fn.frame.ret.ok
    /\ o \in Range(fn.frame.st.msgTx.ins)

\* C37: of two calls that name the same outpoint, no step of one removes a
\* reservation the other holds for its funded transaction, and at most one
\* of them publishes a transaction that spends the outpoint.
C37_NoStolenReservation ==
    /\ [][ fn' = fn =>
             \A o \in HeldByOther : locks[o] # NoLock => locks'[o] # NoLock ]_vars
    /\ [](\A o \in Outpoints : ~BothPublished(o))

\* C38: for a fixed version string, no call of CanRBF answers differently
\* from an earlier call, whether or not the minor component parsed on the
\* first call and whether or not an earlier call reached the backend
C38_SameAnswerEveryCall ==
    fn.name = "CanRBF" =>
        \A i, j \in DOMAIN fn.answers : fn.answers[i] = fn.answers[j]

\* C40: a releaseOutputs call that returned nil issued a release for every
\* outpoint of the list it was given; a call that skipped an entry returned
\* an error
C40_ReleasedAllOrError ==
    \A k \in DOMAIN rels : rels[k].err \/ rels[k].calls = Len(rels[k].utxos)

====
